---- MODULE Spec2Model ----
(***************************************************************************)
(* A model of freedvtnc2's TCP command server (command_server.py): the     *)
(* server lifecycle (start/stop), the accept loop, the per-connection      *)
(* handler with its line framing, and the command dispatcher working on    *)
(* the shared modem / audio-device / options state.                        *)
(*                                                                         *)
(* Text is modelled character by character.  A byte on the wire is a       *)
(* string: an ASCII byte is the one-character string itself, and the two   *)
(* bytes of the UTF-8 encoding of U+00E9 are "xC3" and "xA9".  The control *)
(* bytes that TLA+ has no escape for are named by their code: "x0B" is the *)
(* vertical tab, "x0C" the form feed, "x1C" to "x1F" the four separators.  *)
(* A decoded character is again a string: the ASCII character itself,      *)
(* "U+E9" for U+00E9 and "U+C9" for its upper case U+00C9.  A Python str   *)
(* is a sequence of such characters; Str joins it into one TLA+ string.    *)
(***************************************************************************)
EXTENDS Integers, Sequences, FiniteSets, TLC

(***************************************************************************)
(* Text primitives (Python str / bytes methods used by the server)         *)
(***************************************************************************)

NL == "\n"

\* str.isspace for the characters of the model's alphabet: the space, the
\* tab, the carriage return, the newline, the vertical tab, the form feed
\* and the file, group, record and unit separators
Whitespace == {" ", "\t", "\r", NL, "x0B", "x0C", "x1C", "x1D", "x1E", "x1F"}

Digits == <<"0", "1", "2", "3", "4", "5", "6", "7", "8", "9">>

LowerChars ==
    <<"a", "b", "c", "d", "e", "f", "g", "h", "i", "j", "k", "l", "m",
      "n", "o", "p", "q", "r", "s", "t", "u", "v", "w", "x", "y", "z", "U+E9">>

UpperChars ==
    <<"A", "B", "C", "D", "E", "F", "G", "H", "I", "J", "K", "L", "M",
      "N", "O", "P", "Q", "R", "S", "T", "U", "V", "W", "X", "Y", "Z", "U+C9">>

\* the index of x in sequence s, 0 when absent
IndexOf(s, x) ==
    IF \E i \in 1..Len(s) : s[i] = x
    THEN CHOOSE i \in 1..Len(s) : s[i] = x
    ELSE 0

IsDigit(ch) == IndexOf(Digits, ch) # 0

DigitVal(ch) == IndexOf(Digits, ch) - 1

\* "".join(chars)
RECURSIVE Str(_)
Str(s) == IF s = <<>> THEN "" ELSE Head(s) \o Str(Tail(s))

\* str.upper(), one character
UpperChar(ch) ==
    IF IndexOf(LowerChars, ch) # 0 THEN UpperChars[IndexOf(LowerChars, ch)] ELSE ch

\* str.upper()
RECURSIVE Upper(_)
Upper(s) == IF s = <<>> THEN <<>> ELSE <<UpperChar(Head(s))>> \o Upper(Tail(s))

\* str.lstrip()
RECURSIVE LStrip(_)
LStrip(s) ==
    IF s # <<>> /\ Head(s) \in Whitespace THEN LStrip(Tail(s)) ELSE s

\* str.rstrip()
RECURSIVE RStrip(_)
RStrip(s) ==
    IF s # <<>> /\ s[Len(s)] \in Whitespace
    THEN RStrip(SubSeq(s, 1, Len(s) - 1))
    ELSE s

\* str.strip()
Strip(s) == RStrip(LStrip(s))

\* bytes.decode('utf-8', errors='ignore') of one received chunk: an ASCII
\* byte is its character, the pair xC3 xA9 is U+00E9, and a lead byte without
\* its continuation byte or a continuation byte without its lead is dropped.
RECURSIVE Decode(_)
Decode(b) ==
    IF b = <<>> THEN <<>>
    ELSE IF Head(b) = "xC3"
         THEN IF Len(b) >= 2 /\ b[2] = "xA9"
              THEN <<"U+E9">> \o Decode(SubSeq(b, 3, Len(b)))
              ELSE Decode(Tail(b))
         ELSE IF Head(b) = "xA9"
              THEN Decode(Tail(b))
              ELSE <<Head(b)>> \o Decode(Tail(b))

\* '\n' in buffer
HasLine(buffer) == IndexOf(buffer, NL) # 0

\* buffer.split('\n', 1): the text before the first newline and the text after
SplitLine(buffer) ==
    LET i == IndexOf(buffer, NL)
    IN  [line |-> SubSeq(buffer, 1, i - 1),
         rest |-> SubSeq(buffer, i + 1, Len(buffer))]

\* the position of the first whitespace character of s, 0 when none
RECURSIVE FirstSpace(_, _)
FirstSpace(s, i) ==
    IF i > Len(s) THEN 0
    ELSE IF s[i] \in Whitespace THEN i ELSE FirstSpace(s, i + 1)

\* str.split(None, 1): at most two parts, split at the first whitespace run
SplitWords(s) ==
    LET t == LStrip(s)
        i == FirstSpace(t, 1)
    IN  IF t = <<>> THEN <<>>
        ELSE IF i = 0 THEN <<t>>
        ELSE LET r == RStrip(LStrip(SubSeq(t, i, Len(t))))
                 \* with maxsplit the remainder keeps its trailing whitespace
                 rr == LStrip(SubSeq(t, i, Len(t)))
             IN  IF r = <<>> THEN <<SubSeq(t, 1, i - 1)>>
                 ELSE <<SubSeq(t, 1, i - 1), rr>>

(***************************************************************************)
(* float(): parsing a str to a float, and the str of a float               *)
(*                                                                         *)
(* A float is a record: k = "nan", k = "inf" (neg: its sign) or k = "fin", *)
(* the finite value (-1)^neg * m * 10^e with m not a multiple of ten (or   *)
(* m = 0 and e = 0; the sign of a zero is kept).  That is the shortest     *)
(* decimal that names the double, so it is exact for the literals of up to *)
(* nine significant digits that the model reads.  k = "ValueError" stands  *)
(* for the exception float() raises.  Literals in the range of the         *)
(* subnormal doubles (below about 2.2e-308) are kept as written, where     *)
(* float() rounds them to the nearest subnormal.                           *)
(***************************************************************************)

FloatNaN == [k |-> "nan", neg |-> FALSE, m |-> 0, e |-> 0]

FloatInf(neg) == [k |-> "inf", neg |-> neg, m |-> 0, e |-> 0]

FloatFin(neg, m, e) == [k |-> "fin", neg |-> neg, m |-> m, e |-> e]

ValueError == [k |-> "ValueError", neg |-> FALSE, m |-> 0, e |-> 0]

RECURSIVE Pow10(_)
Pow10(n) == IF n <= 0 THEN 1 ELSE 10 * Pow10(n - 1)

\* the longest prefix of s made of digits
RECURSIVE DigitPrefix(_)
DigitPrefix(s) ==
    IF s # <<>> /\ IsDigit(Head(s)) THEN <<Head(s)>> \o DigitPrefix(Tail(s)) ELSE <<>>

RECURSIVE DropLeadingZeros(_)
DropLeadingZeros(s) ==
    IF s # <<>> /\ Head(s) = "0" THEN DropLeadingZeros(Tail(s)) ELSE s

RECURSIVE DropTrailingZeros(_)
DropTrailingZeros(s) ==
    IF s # <<>> /\ s[Len(s)] = "0"
    THEN DropTrailingZeros(SubSeq(s, 1, Len(s) - 1))
    ELSE s

\* the natural number a sequence of digits writes
RECURSIVE NatOf(_)
NatOf(s) ==
    IF s = <<>> THEN 0
    ELSE 10 * NatOf(SubSeq(s, 1, Len(s) - 1)) + DigitVal(s[Len(s)])

\* the digits of a natural number
RECURSIVE DigitsOf(_)
DigitsOf(n) ==
    IF n < 10 THEN <<Digits[n + 1]>>
    ELSE DigitsOf(n \div 10) \o <<Digits[(n % 10) + 1]>>

\* an underscore of a numeric literal must stand between two digits
UnderscoresOk(s) ==
    \A i \in 1..Len(s) :
        s[i] = "_" => /\ i > 1 /\ i < Len(s)
                      /\ IsDigit(s[i - 1]) /\ IsDigit(s[i + 1])

RemoveUnderscores(s) == SelectSeq(s, LAMBDA ch : ch # "_")

\* the double nearest to (-1)^neg * (digits ds) * 10^e: above the largest
\* double it is an infinity, below half the smallest it is a zero
RoundDouble(neg, ds, e) ==
    LET sig == DropTrailingZeros(DropLeadingZeros(ds))
        lead == DropLeadingZeros(ds)
        ee == e + (Len(lead) - Len(sig))
        n == Len(sig)
        d10 == n + ee - 1
        m9 == NatOf(sig) * Pow10(9 - n)
    IN  IF sig = <<>> THEN FloatFin(neg, 0, 0)
        ELSE IF d10 > 308 \/ (d10 = 308 /\ m9 >= 179769314) THEN FloatInf(neg)
        ELSE IF d10 < -324 \/ (d10 = -324 /\ m9 <= 247032822) THEN FloatFin(neg, 0, 0)
        ELSE FloatFin(neg, NatOf(sig), ee)

\* the exponent part of a literal: empty, or E, an optional sign and digits
ExponentOk(x) ==
    \/ x = <<>>
    \/ /\ Len(x) >= 2
       /\ x[1] \in {"E", "e"}
       /\ LET d == IF x[2] \in {"+", "-"} THEN SubSeq(x, 3, Len(x)) ELSE Tail(x)
          IN  d # <<>> /\ DigitPrefix(d) = d

ExponentOf(x) ==
    IF x = <<>> THEN 0
    ELSE LET d == IF x[2] \in {"+", "-"} THEN SubSeq(x, 3, Len(x)) ELSE Tail(x)
             v == NatOf(DropLeadingZeros(d))
         IN  IF x[2] = "-" THEN 0 - v ELSE v

\* float(s)
ParseFloat(s) ==
    LET t == Strip(s)
        u == RemoveUnderscores(t)
        neg == u # <<>> /\ Head(u) = "-"
        body == IF u # <<>> /\ Head(u) \in {"+", "-"} THEN Tail(u) ELSE u
        word == Str(Upper(body))
        ip == DigitPrefix(body)
        afterInt == SubSeq(body, Len(ip) + 1, Len(body))
        hasDot == afterInt # <<>> /\ Head(afterInt) = "."
        fp == IF hasDot THEN DigitPrefix(Tail(afterInt)) ELSE <<>>
        afterFrac == IF hasDot
                     THEN SubSeq(afterInt, Len(fp) + 2, Len(afterInt))
                     ELSE afterInt
    IN  IF ~UnderscoresOk(t) THEN ValueError
        ELSE IF u = t /\ word \in {"INF", "INFINITY"} THEN FloatInf(neg)
        ELSE IF u = t /\ word = "NAN" THEN FloatNaN
        ELSE IF ip \o fp = <<>> \/ ~ExponentOk(afterFrac) THEN ValueError
        ELSE RoundDouble(neg, ip \o fp, ExponentOf(afterFrac) - Len(fp))

RECURSIVE Zeros(_)
Zeros(n) == IF n <= 0 THEN "" ELSE "0" \o Zeros(n - 1)

\* str(v) of a float v (the f-string's "{volume}")
FloatStr(v) ==
    LET ds == DigitsOf(v.m)
        n == Len(ds)
        d10 == n + v.e - 1
        sign == IF v.neg THEN "-" ELSE ""
        ex == IF d10 < 0 THEN 0 - d10 ELSE d10
        fixed == IF v.e >= 0 THEN Str(ds) \o Zeros(v.e) \o ".0"
                 ELSE IF n + v.e > 0
                 THEN Str(SubSeq(ds, 1, n + v.e)) \o "." \o Str(SubSeq(ds, n + v.e + 1, n))
                 ELSE "0." \o Zeros(0 - (n + v.e)) \o Str(ds)
        sci == ds[1] \o (IF n > 1 THEN "." \o Str(Tail(ds)) ELSE "")
               \o "e" \o (IF d10 < 0 THEN "-" ELSE "+")
               \o (IF ex < 10 THEN "0" ELSE "") \o Str(DigitsOf(ex))
    IN  IF v.k = "nan" THEN "nan"
        ELSE IF v.k = "inf" THEN sign \o "inf"
        ELSE IF d10 >= -4 /\ d10 < 16 THEN sign \o fixed
        ELSE sign \o sci

\* f"{v:.1f}" of a float v that has at most one decimal digit
Format1(v) ==
    LET ds == DigitsOf(v.m)
        n == Len(ds)
        sign == IF v.neg THEN "-" ELSE ""
    IN  IF v.k = "nan" THEN "nan"
        ELSE IF v.k = "inf" THEN sign \o "inf"
        ELSE IF v.e >= 0 THEN sign \o Str(ds) \o Zeros(v.e) \o ".0"
        ELSE IF n = 1 THEN sign \o "0." \o ds[1]
        ELSE sign \o Str(SubSeq(ds, 1, n - 1)) \o "." \o ds[n]

(***************************************************************************)
(* Bounds of the model and the inputs the environment draws from           *)
(***************************************************************************)

\* connections the listener accepts in one run
MaxConns == 2

\* lines the clients send in one run, all connections together
MaxLines == 2

\* lines the clients send in a run of the MODE, VOLUME or FOLLOW commands
CmdLines == 3

\* start() and stop() calls in one run
MaxCalls == 4

\* accept-loop thread objects created in one run, and threads that run
\* _server_loop in one run
MaxThreads == 2

\* connections the listener accepts in a run of the lifecycle
LifeConns == 1

\* lines the clients send in a run of the lifecycle
LifeLines == 1

\* connections the listener accepts in a run of the failing commands
ErrConns == 1

\* frames the transmit path queues in one run
MaxFrames == 2

\* conn.recv(1024): the most bytes one read returns
RecvSize == 1024

\* [m.name for m in Modems]: the mode names of the modem module
valid_modes == <<"DATAC1", "DATAC3", "DATAC4">>

\* self.input_device.input_level: the levels the input device reports
InputLevels == {FloatFin(TRUE, 125, -1), FloatFin(FALSE, 0, 0)}

\* str(Path.home() / ".freedvtnc2.conf")
ConfigPath == "/root/.freedvtnc2.conf"

\* str(e) of the exceptions the collaborators raise
ModemFault == "set_mode failed"

InputFault == "input device failed"

OutputFault == "output device failed"

PttFaults == {"No module named 'pydub'", OutputFault}

ImportFault == "No module named 'configargparse'"

OpenFault == "[Errno 13] Permission denied: '/root/.freedvtnc2.conf'"

WriteFault == "[Errno 28] No space left on device"

\* the threads of the application that call start() and stop()
Callers == {"main", "other"}

\* The lines the clients send (bytes, without the newline)
LinePing == <<"P", "I", "N", "G">>

LineFoo == <<"f", "o", "o", "\r">>

LineBlank == <<" ", "x0C">>

LineFormFeed == <<"x0C", "P", "I", "N", "G", "x1F">>

LineEAcute == <<"xC3", "xA9">>

LineUnknown == <<"f", "o", "o", " ", "b", "a", "r">>

LinePttX == <<"P", "T", "T", " ", "X">>

LineStatus == <<"S", "T", "A", "T", "U", "S">>

LineLevels == <<"L", "E", "V", "E", "L", "S">>

LinePttTest == <<"p", "t", "t", " ", " ", "t", "e", "s", "t">>

LineClear == <<"C", "L", "E", "A", "R">>

LineSave == <<"S", "A", "V", "E">>

LineModeQuery == <<"M", "O", "D", "E">>

LineModeDatac1 == <<"M", "o", "d", "e", " ", "d", "a", "t", "a", "c", "1">>

LineModeDatac3 == <<"M", "O", "D", "E", " ", "D", "A", "T", "A", "C", "3">>

LineModeDatac4 == <<"m", "o", "d", "e", "x0C", " ", "d", "a", "t", "a", "c", "4">>

LineModeBogus == <<"M", "O", "D", "E", " ", "B", "O", "G", "U", "S">>

LineVolumeQuery == <<"V", "O", "L", "U", "M", "E">>

LineVolumeNeg == <<"V", "O", "L", "U", "M", "E", " ", "-", "6", ".", "5">>

LineVolumeExp == <<"v", "o", "l", "u", "m", "e", " ", "1", "e", "1">>

LineVolumeAbc == <<"V", "O", "L", "U", "M", "E", " ", "A", "B", "C">>

LineVolumeNan == <<"V", "O", "L", "U", "M", "E", " ", "N", "A", "N">>

LineVolumeInf == <<"v", "o", "l", "u", "m", "e", " ", "-", "i", "n", "f">>

LineVolumeInfinity ==
    <<"V", "O", "L", "U", "M", "E", " ", "I", "n", "f", "i", "n", "i", "t", "y">>

LineVolumeBig == <<"V", "O", "L", "U", "M", "E", " ", "1", "e", "9", "9", "9">>

LineFollowQuery == <<"F", "O", "L", "L", "O", "W">>

LineFollowOn == <<"F", "O", "L", "L", "O", "W", " ", "O", "N">>

LineFollowOff == <<"f", "o", "l", "l", "o", "w", " ", "o", "f", "f">>

LineFollowMaybe == <<"F", "O", "L", "L", "O", "W", " ", "M", "A", "Y", "B", "E">>

\* the lines of each specification's clients
LinesFrame == {LinePing, LineFoo, LineBlank, LineEAcute, LineFormFeed}

LinesMode == {LineModeQuery, LineModeDatac1, LineModeDatac3, LineModeDatac4, LineModeBogus}

LinesVolume == {LineVolumeQuery, LineVolumeNeg, LineVolumeExp, LineVolumeAbc}

LinesFollow == {LineFollowQuery, LineFollowOn, LineFollowOff, LineFollowMaybe}

LinesErrors ==
    {LineUnknown, LineModeDatac3, LineVolumeAbc, LinePttX, LinePing,
     LineStatus, LineLevels, LinePttTest, LineClear, LineSave}

LinesLife == {LinePing}

LinesClear == {LineClear}

LinesFinite ==
    {LineVolumeQuery, LineVolumeNeg, LineVolumeNan, LineVolumeInf,
     LineVolumeInfinity, LineVolumeBig}

LinesOptions == {LineModeDatac3, LineModeDatac4, LineVolumeNeg, LineVolumeExp}

(***************************************************************************)
(* State                                                                   *)
(***************************************************************************)

VARIABLES
    running,        \* self.running
    server_socket,  \* self.server_socket: 0 is None, else an index of socks
    socks,          \* the listening sockets ever created, see NewSocket
    thr,            \* the accept-loop thread objects ever created and the
                    \* further runs of their target: where each one is (pc,
                    \* "created" while it is not started), the socket whose
                    \* accept() it has called (sock), whether that call has
                    \* a timeout (timed), the callers inside Thread.start()
                    \* of the object (by) and the object it runs (obj)
    caller,         \* where each caller of start()/stop() is
    ncalls,         \* start() and stop() calls made
    last,           \* the last call: "" none, "start", "again" (a start() that found
                    \* the server running), "stop" (a stop() that has returned)
    conn,           \* the accepted connections and their handler threads
    nconn,          \* connections accepted
    nlines,         \* lines sent by the clients
    modem_name,     \* self.modem_tx.modem.modem_name
    modem_ok,       \* whether the modem's set_mode works (it raises otherwise)
    options,        \* self.options: mode, output_volume, follow
    output_db,      \* self.output_device.db
    tx_buffer,      \* the audio the output device holds to play
    send_queue,     \* self.output_device.send_queue
    config_file,    \* the content of the configuration file SAVE writes
    send_queue_lock, \* self.output_device.send_queue_lock: the thread that holds it
    nframes,        \* frames the transmit path has queued
    modeOwner,      \* the connection whose command last called set_mode, 0 if none
    volOwner        \* the connection that last wrote options.output_volume

lifeVars == <<running, server_socket, socks, thr, caller, ncalls, last>>

txVars == <<tx_buffer, send_queue, config_file, send_queue_lock, nframes>>

devVars == <<modem_name, modem_ok, options, output_db, tx_buffer, send_queue,
            config_file, send_queue_lock, nframes, modeOwner, volOwner>>

vars == <<running, server_socket, socks, thr, caller, ncalls, last,
          conn, nconn, nlines, modem_name, modem_ok, options, output_db,
          tx_buffer, send_queue, config_file, send_queue_lock, nframes,
          modeOwner, volOwner>>

Conns == 1..MaxConns

\* the holders of the queue's lock: nobody, the handler of connection c, the
\* transmit path that queues frames, the audio path that takes them
Free == [by |-> "nobody", c |-> 0]

Handler(c) == [by |-> "handler", c |-> c]

Producer == [by |-> "producer", c |-> 0]

Reader == [by |-> "reader", c |-> 0]

\* a connection slot before accept() has returned it
NoConn ==
    [pc |-> "none",        \* where the handler thread is
     wire |-> <<>>,        \* bytes the client has sent and the handler not yet read
     peer |-> "open",      \* the client's end: "open", "closed" (EOF) or "reset";
                           \* of a connection the handler closed first, also
                           \* "timewait" (the client has closed since) and
                           \* "over" (the system has dropped the connection)
     buffer |-> <<>>,      \* buffer
     line |-> <<>>,        \* line
     response |-> "",      \* response
     at |-> 0,             \* the source line a handler of several steps is at
     text |-> <<>>,        \* the values a handler of several steps has read so
                           \* far, in the order read, as pairs of a name and
                           \* the value as text
     rst |-> FALSE,        \* a reset of the client's system, sent in answer to
                           \* a send after the client closed, has arrived
     mark |-> 0,           \* the frames queued so far when CLEAR last emptied the queue
     own |-> 0,            \* the connection that last wrote the value a query read, 0 if none
     log |-> <<>>,         \* the lines answered, each with the response sent
     rx |-> <<>>,          \* all the text decoded from the socket so far
     rxb |-> <<>>,         \* all the bytes read from the socket so far
     ndisp |-> 0,          \* lines handed to _process_command
     cause |-> "",         \* why the handler left its loop
     up |-> FALSE,         \* accepted while self.running was set
     late |-> FALSE,       \* accepted after a stop() had returned
     gone |-> {}]          \* the connections whose handlers had ended at the accept

\* the state after CommandServer.__init__
Init ==
    /\ running = FALSE
    /\ server_socket = 0
    /\ socks = <<>>
    /\ thr = <<>>
    /\ caller = [k \in Callers |-> "idle"]
    /\ ncalls = 0
    /\ last = ""
    /\ conn = [c \in Conns |-> NoConn]
    /\ nconn = 0
    /\ nlines = 0
    /\ modem_name = valid_modes[1]
    /\ modem_ok = TRUE
    /\ options = [c |-> "None",
                  mode |-> valid_modes[1],
                  output_volume |-> FloatFin(FALSE, 0, 0),
                  follow |-> FALSE]
    /\ output_db = FloatFin(FALSE, 0, 0)
    /\ tx_buffer = <<>>
    /\ send_queue = <<>>
    /\ config_file = ""
    /\ send_queue_lock = Free
    /\ nframes = 0
    /\ modeOwner = 0
    /\ volOwner = 0

(***************************************************************************)
(* Server lifecycle: start() and stop()                                    *)
(***************************************************************************)

\* a stop() has returned and start() was not called since
afterStop == last = "stop"

\* a variant of line 49 that never finds the server running
NeverRunning == FALSE

\* line 49: if self.running, start() returns at once
AlreadyRunning == running

\* the thread objects: an entry of thr whose obj is its own index is a thread
\* object made at line 54 (and the first run of its target); any other entry
\* is a further run of _server_loop on the object obj
Objects == {i \in 1..Len(thr) : thr[i].obj = i}

\* self._thread: the thread object created last, 0 before the first
_thread == IF Objects = {} THEN 0 ELSE CHOOSE i \in Objects : \A j \in Objects : j <= i

\* Thread._started.is_set(): a thread of this object has begun to run
Started(o) == thr[o].pc # "created"

\* the calls of start() that are about to create their thread
Starting == {j \in Callers : caller[j] \in {"start_set", "start_thread"}}

\* start(), lines 49-51: the check of self.running
StartCall(k) ==
    /\ caller[k] = "idle"
    /\ ncalls < MaxCalls
    /\ AlreadyRunning \/ Cardinality(Objects) + Cardinality(Starting) < MaxThreads
    /\ ncalls' = ncalls + 1
    /\ last' = IF AlreadyRunning THEN "again" ELSE "start"
    /\ caller' = [caller EXCEPT ![k] = IF AlreadyRunning THEN "idle" ELSE "start_set"]
    /\ UNCHANGED <<running, server_socket, socks, thr, conn, nconn, nlines>>
    /\ UNCHANGED devVars

\* the application starts the server once, and never stops it
StartOnce(k) ==
    /\ ncalls = 0
    /\ StartCall(k)

\* start(), line 53: self.running = True
StartSet(k) ==
    /\ caller[k] = "start_set"
    /\ running' = TRUE
    /\ caller' = [caller EXCEPT ![k] = "start_thread"]
    /\ UNCHANGED <<server_socket, socks, thr, ncalls, last, conn, nconn, nlines>>
    /\ UNCHANGED devVars

\* start(), line 54: self._thread = threading.Thread(...), a thread object
\* that is not started yet
StartThread(k) ==
    /\ caller[k] = "start_thread"
    /\ thr' = Append(thr, [pc |-> "created", sock |-> 0, timed |-> FALSE,
                           by |-> {}, obj |-> Len(thr) + 1])
    /\ caller' = [caller EXCEPT ![k] = "start_spawn"]
    /\ UNCHANGED <<running, server_socket, socks, ncalls, last, conn, nconn, nlines>>
    /\ UNCHANGED devVars

\* start(), line 55, first half: self._thread is read and Thread.start()
\* tests _started on that object: when a thread of it runs already,
\* RuntimeError leaves start() and no thread is started; otherwise the call
\* goes on to launch one
StartSpawn(k) ==
    /\ caller[k] = "start_spawn"
    /\ IF Started(_thread)
       THEN /\ caller' = [caller EXCEPT ![k] = "idle"]
            /\ thr' = thr
       ELSE /\ caller' = [caller EXCEPT ![k] = "start_launch"]
            /\ thr' = [thr EXCEPT ![_thread].by = @ \cup {k}]
    /\ UNCHANGED <<running, server_socket, socks, ncalls, last, conn, nconn, nlines>>
    /\ UNCHANGED devVars

\* start(), lines 55-56, second half: Thread.start() launches an OS thread on
\* the object and returns once _started is set.  The first launch on an object
\* runs _server_loop.  A launch by a second call that passed the test of
\* _started before the first thread set it starts a second OS thread on the
\* same object: it runs _server_loop once more while the target is still
\* there (also after the first run has returned from _server_loop, until
\* Thread.run() deletes the target), or ends in its bootstrap (the entry of
\* the object in the limbo table is gone, or the finished first run has
\* deleted the target).  The call returns once _started is set, which the
\* new thread does before it runs its target
StartLaunch(k) ==
    /\ caller[k] = "start_launch"
    /\ LET o == CHOOSE i \in Objects : k \in thr[i].by
           left == [thr EXCEPT ![o].by = @ \ {k}]
       IN  \/ /\ ~Started(o)
              /\ thr' = [left EXCEPT ![o].pc = "socket"]
           \/ /\ Started(o)
              /\ Cardinality({t \in 1..Len(thr) : Started(t)}) < MaxThreads
              /\ thr' = Append(left, [pc |-> "socket", sock |-> 0, timed |-> FALSE,
                                      by |-> {}, obj |-> o])
           \/ /\ Started(o)
              /\ thr' = left
    /\ caller' = [caller EXCEPT ![k] = "idle"]
    /\ UNCHANGED <<running, server_socket, socks, ncalls, last, conn, nconn, nlines>>
    /\ UNCHANGED devVars

\* stop(), line 60: self.running = False
StopCall(k) ==
    /\ caller[k] = "idle"
    /\ ncalls < MaxCalls
    /\ ncalls' = ncalls + 1
    /\ running' = FALSE
    /\ caller' = [caller EXCEPT ![k] = "stop_close"]
    /\ UNCHANGED <<server_socket, socks, thr, last, conn, nconn, nlines>>
    /\ UNCHANGED devVars

\* socket.close(): the socket object is closed
Closed(ss, i) == [ss EXCEPT ![i].closed = TRUE]

\* stop(), lines 61-66: the socket that self.server_socket names is closed,
\* and stop() returns
StopClose(k) ==
    /\ caller[k] = "stop_close"
    /\ socks' = IF server_socket # 0 THEN Closed(socks, server_socket) ELSE socks
    /\ caller' = [caller EXCEPT ![k] = "idle"]
    /\ last' = "stop"
    /\ UNCHANGED <<running, server_socket, thr, ncalls, conn, nconn, nlines>>
    /\ UNCHANGED devVars

(***************************************************************************)
(* The accept loop: _server_loop                                           *)
(*                                                                         *)
(* Every line of the loop reads self.server_socket anew, so a thread acts  *)
(* on the socket the attribute names at that moment.  A socket object is   *)
(* closed by close() or when nothing refers to it any more: the attribute  *)
(* refers to one socket, and a thread inside accept() refers to the socket *)
(* it waits on.  The socket of the operating system lives on, and keeps   *)
(* its port, until the accept() calls that wait on it have returned.       *)
(***************************************************************************)

\* the accept-loop threads that were started
Threads == {t \in 1..Len(thr) : thr[t].pc # "created"}

\* socket.socket(AF_INET, SOCK_STREAM): a fresh socket.  st is "new", "bound"
\* (to self.port), "listening" (on self.port) or "elsewhere" (listening,
\* never bound, on a port the system chose); reuse is SO_REUSEADDR; timeout
\* is whether a timeout is set; closed is whether the object is closed
NewSocket == [st |-> "new", reuse |-> FALSE, timeout |-> FALSE, closed |-> FALSE]

\* some thread of th is inside accept() on socket i
Waiting(th, i) == \E t \in 1..Len(th) : th[t].pc = "accept" /\ th[t].sock = i

\* the sockets ss once the objects nothing refers to are collected: those
\* that self.server_socket (cur) does not name and no thread waits on
Collected(ss, th, cur) ==
    [i \in 1..Len(ss) |->
        IF i = cur \/ Waiting(th, i) THEN ss[i] ELSE [ss[i] EXCEPT !.closed = TRUE]]

\* a listening socket of this server holds the port: one that is open, or
\* one that was closed while a thread waits in accept() on it
PortHeld ==
    \E i \in 1..Len(socks) :
        /\ socks[i].st = "listening"
        /\ ~socks[i].closed \/ Waiting(thr, i)

\* a connection of this server still uses the port: one on which no reset
\* has arrived (from the client, or from the client's system in answer to a
\* send after the client had closed for good; a connection whose client has
\* closed and that got no reset keeps the port) and that the handler has not
\* closed yet, or has closed before the client did with nothing left unread
\* (a close with unread bytes resets the connection), until the system
\* drops that connection when its time has run out
PortBusy ==
    \E c \in Conns :
        /\ conn[c].pc # "none"
        /\ conn[c].peer \notin {"reset", "over"}
        /\ ~conn[c].rst
        /\ \/ conn[c].pc # "closed"
           \/ conn[c].peer \in {"open", "timewait"} /\ conn[c].wire = <<>>

\* line 71: self.server_socket = socket.socket(...); the socket the attribute
\* named before is collected unless a thread waits on it
LoopSocket(t) ==
    /\ thr[t].pc = "socket"
    /\ socks' = Collected(Append(socks, NewSocket), thr, Len(socks) + 1)
    /\ server_socket' = Len(socks) + 1
    /\ thr' = [thr EXCEPT ![t].pc = "setsockopt"]
    /\ UNCHANGED <<running, caller, ncalls, last, conn, nconn, nlines>>
    /\ UNCHANGED devVars

\* line 72: self.server_socket.setsockopt(SOL_SOCKET, SO_REUSEADDR, 1), which
\* raises on a closed socket (lines 92-93, then the finally clause)
LoopSetsockopt(t) ==
    /\ thr[t].pc = "setsockopt"
    /\ IF socks[server_socket].closed
       THEN /\ thr' = [thr EXCEPT ![t].pc = "finally"]
            /\ UNCHANGED socks
       ELSE /\ socks' = [socks EXCEPT ![server_socket].reuse = TRUE]
            /\ thr' = [thr EXCEPT ![t].pc = "bind"]
    /\ UNCHANGED <<running, server_socket, caller, ncalls, last, conn, nconn, nlines>>
    /\ UNCHANGED devVars

\* line 73: self.server_socket.bind((self.host, self.port)) succeeds on an
\* open socket that is not bound yet when no listening socket holds the port
\* and, without SO_REUSEADDR, no connection uses it
LoopBind(t) ==
    /\ thr[t].pc = "bind"
    /\ ~socks[server_socket].closed
    /\ socks[server_socket].st = "new"
    /\ ~PortHeld
    /\ socks[server_socket].reuse \/ ~PortBusy
    /\ socks' = [socks EXCEPT ![server_socket].st = "bound"]
    /\ thr' = [thr EXCEPT ![t].pc = "listen"]
    /\ UNCHANGED <<running, server_socket, caller, ncalls, last, conn, nconn, nlines>>
    /\ UNCHANGED devVars

\* lines 73 and 92-93: bind raises (the port is held by this server or by
\* another process, or self.server_socket is closed or bound already); the
\* exception is logged and the thread goes to its finally clause
LoopBindFail(t) ==
    /\ thr[t].pc = "bind"
    /\ thr' = [thr EXCEPT ![t].pc = "finally"]
    /\ UNCHANGED <<running, server_socket, socks, caller, ncalls, last, conn, nconn, nlines>>
    /\ UNCHANGED devVars

\* line 74: self.server_socket.listen(5).  A bound socket listens on
\* self.port, a socket that was never bound listens on a port the system
\* chooses, a listening socket stays as it is; listen raises on a closed
\* socket, and on a bound one when another socket listens on the port
LoopListen(t) ==
    /\ thr[t].pc = "listen"
    /\ IF \/ socks[server_socket].closed
          \/ socks[server_socket].st = "bound" /\ PortHeld
       THEN /\ thr' = [thr EXCEPT ![t].pc = "finally"]
            /\ UNCHANGED socks
       ELSE /\ socks' = [socks EXCEPT ![server_socket].st =
                            IF @ = "new" THEN "elsewhere"
                            ELSE IF @ = "bound" THEN "listening"
                            ELSE @]
            /\ thr' = [thr EXCEPT ![t].pc = "settimeout"]
    /\ UNCHANGED <<running, server_socket, caller, ncalls, last, conn, nconn, nlines>>
    /\ UNCHANGED devVars

\* line 75: self.server_socket.settimeout(1.0), which raises on a closed
\* socket
LoopSettimeout(t) ==
    /\ thr[t].pc = "settimeout"
    /\ IF socks[server_socket].closed
       THEN /\ thr' = [thr EXCEPT ![t].pc = "finally"]
            /\ UNCHANGED socks
       ELSE /\ socks' = [socks EXCEPT ![server_socket].timeout = TRUE]
            /\ thr' = [thr EXCEPT ![t].pc = "loop"]
    /\ UNCHANGED <<running, server_socket, caller, ncalls, last, conn, nconn, nlines>>
    /\ UNCHANGED devVars

\* line 77: while self.running
LoopCheck(t) ==
    /\ thr[t].pc = "loop"
    /\ thr' = [thr EXCEPT ![t].pc = IF running THEN "call" ELSE "finally"]
    /\ UNCHANGED <<running, server_socket, socks, caller, ncalls, last, conn, nconn, nlines>>
    /\ UNCHANGED devVars

\* line 79: self.server_socket.accept() is called on the socket that
\* self.server_socket names at this moment.  On a socket that is closed or
\* does not listen the call raises at once (lines 89-91) and the loop goes
\* on; else the thread waits, with the timeout the socket has at the call
LoopCall(t) ==
    /\ thr[t].pc = "call"
    /\ IF \/ socks[server_socket].closed
          \/ socks[server_socket].st \in {"new", "bound"}
       THEN thr' = [thr EXCEPT ![t].pc = "loop"]
       ELSE thr' = [thr EXCEPT ![t].pc = "accept",
                               ![t].sock = server_socket,
                               ![t].timed = socks[server_socket].timeout]
    /\ UNCHANGED <<running, server_socket, socks, caller, ncalls, last, conn, nconn, nlines>>
    /\ UNCHANGED devVars

\* the connections whose handlers have left their loops
Ended == {d \in Conns : conn[d].pc \in {"finally", "closed"}}

\* accept() is over: thread t is back at the loop condition, and does not
\* refer to the socket it waited on any more
Returned(t) == [thr EXCEPT ![t].pc = "loop", ![t].sock = 0, ![t].timed = FALSE]

\* lines 79-86: accept() returns a connection to self.port, and its handler
\* thread is started; max bounds the connections the environment opens.  A
\* wait with a timeout raises once the socket object is closed; a wait
\* without one still returns the connection
LoopAccept(t, max) ==
    /\ thr[t].pc = "accept"
    /\ socks[thr[t].sock].st = "listening"
    /\ ~socks[thr[t].sock].closed \/ ~thr[t].timed
    /\ nconn < max
    /\ nconn' = nconn + 1
    /\ conn' = [conn EXCEPT ![nconn + 1] = [NoConn EXCEPT !.pc = "check",
                                                         !.up = running,
                                                         !.late = afterStop,
                                                         !.gone = Ended]]
    /\ thr' = Returned(t)
    /\ socks' = Collected(socks, Returned(t), server_socket)
    /\ UNCHANGED <<running, server_socket, caller, ncalls, last, nlines>>
    /\ UNCHANGED devVars

\* lines 87-91: an accept() with a timeout times out, or raises at the end
\* of its wait because the socket was closed; either way the loop goes on to
\* its next check
LoopAcceptFail(t) ==
    /\ thr[t].pc = "accept"
    /\ thr[t].timed
    /\ thr' = Returned(t)
    /\ socks' = Collected(socks, Returned(t), server_socket)
    /\ UNCHANGED <<running, server_socket, caller, ncalls, last, conn, nconn, nlines>>
    /\ UNCHANGED devVars

\* lines 94-99: finally, the socket that self.server_socket names is closed
LoopFinally(t) ==
    /\ thr[t].pc = "finally"
    /\ socks' = IF server_socket # 0 THEN Closed(socks, server_socket) ELSE socks
    /\ thr' = [thr EXCEPT ![t].pc = "done"]
    /\ UNCHANGED <<running, server_socket, caller, ncalls, last, conn, nconn, nlines>>
    /\ UNCHANGED devVars

(***************************************************************************)
(* The clients and the modem's faults                                      *)
(***************************************************************************)

Live(c) == conn[c].pc \notin {"none", "closed"}

\* a client sends one line and its newline; max bounds the lines of a run
ClientSend(c, l, max) ==
    /\ Live(c)
    /\ conn[c].peer = "open"
    /\ nlines < max
    /\ nlines' = nlines + 1
    /\ conn' = [conn EXCEPT ![c].wire = @ \o l \o <<NL>>]
    /\ UNCHANGED nconn
    /\ UNCHANGED lifeVars
    /\ UNCHANGED devVars

\* a client closes its end: the handler reads what is in flight, then EOF.
\* When the handler has closed the connection before (nothing unread, so
\* the connection was not reset), the server's end of it waits out its
\* time ("timewait") and holds the port meanwhile
ClientClose(c) ==
    /\ conn[c].pc # "none"
    /\ conn[c].pc = "closed" => conn[c].wire = <<>>
    /\ conn[c].peer = "open"
    /\ conn' = [conn EXCEPT ![c].peer = IF conn[c].pc = "closed" THEN "timewait"
                                        ELSE "closed"]
    /\ UNCHANGED <<nconn, nlines>>
    /\ UNCHANGED lifeVars
    /\ UNCHANGED devVars

\* a client resets the connection: the handler still reads the bytes that
\* had arrived before the reset; its next send, or its recv when nothing is
\* left to read, raises.  A connection the handler has closed before is
\* reset as well (by a client that closes without having read the response)
ClientReset(c) ==
    /\ conn[c].pc # "none"
    /\ conn[c].pc = "closed" => conn[c].wire = <<>>
    /\ conn[c].peer = "open"
    /\ conn' = [conn EXCEPT ![c].peer = "reset"]
    /\ UNCHANGED <<nconn, nlines>>
    /\ UNCHANGED lifeVars
    /\ UNCHANGED devVars

\* line 125, conn.close() before the client has closed: the system keeps the
\* closed connection, which holds the port, while it waits for the client's
\* close and for a time after it, and then drops it
Expire(c) ==
    /\ conn[c].pc = "closed"
    /\ conn[c].wire = <<>>
    /\ conn[c].peer \in {"open", "timewait"}
    /\ conn' = [conn EXCEPT ![c].peer = "over"]
    /\ UNCHANGED <<nconn, nlines>>
    /\ UNCHANGED lifeVars
    /\ UNCHANGED devVars

\* the transmit path takes the queue's lock to queue a frame
ProducerLock ==
    /\ send_queue_lock = Free
    /\ nframes < MaxFrames
    /\ send_queue_lock' = Producer
    /\ UNCHANGED <<modem_name, modem_ok, options, output_db, tx_buffer, send_queue,
                   config_file, nframes, modeOwner, volOwner>>
    /\ UNCHANGED <<conn, nconn, nlines>>
    /\ UNCHANGED lifeVars

\* the transmit path appends a frame (the frames are numbered as they are
\* queued) and gives the lock back
ProducerAppend ==
    /\ send_queue_lock = Producer
    /\ send_queue' = Append(send_queue, nframes + 1)
    /\ nframes' = nframes + 1
    /\ send_queue_lock' = Free
    /\ UNCHANGED <<modem_name, modem_ok, options, output_db, tx_buffer,
                   config_file, modeOwner, volOwner>>
    /\ UNCHANGED <<conn, nconn, nlines>>
    /\ UNCHANGED lifeVars

\* the audio path takes the queue's lock to look at the queue
ReaderLock ==
    /\ send_queue_lock = Free
    /\ send_queue_lock' = Reader
    /\ UNCHANGED <<modem_name, modem_ok, options, output_db, tx_buffer, send_queue,
                   config_file, nframes, modeOwner, volOwner>>
    /\ UNCHANGED <<conn, nconn, nlines>>
    /\ UNCHANGED lifeVars

\* the audio path moves the first frame of the queue, if there still is one,
\* to the audio it holds to play, and gives the lock back
ReaderTake ==
    /\ send_queue_lock = Reader
    /\ IF send_queue # <<>>
       THEN /\ tx_buffer' = Append(tx_buffer, Head(send_queue))
            /\ send_queue' = Tail(send_queue)
       ELSE UNCHANGED <<tx_buffer, send_queue>>
    /\ send_queue_lock' = Free
    /\ UNCHANGED <<modem_name, modem_ok, options, output_db, config_file, nframes,
                   modeOwner, volOwner>>
    /\ UNCHANGED <<conn, nconn, nlines>>
    /\ UNCHANGED lifeVars

\* the modem breaks: from now on set_mode raises
ModemBreak ==
    /\ modem_ok
    /\ modem_ok' = FALSE
    /\ UNCHANGED <<modem_name, options, output_db, modeOwner, volOwner>>
    /\ UNCHANGED <<txVars, conn, nconn, nlines>>
    /\ UNCHANGED lifeVars

(***************************************************************************)
(* The command dispatcher: _process_command and the _cmd_ handlers         *)
(***************************************************************************)

Range(f) == {f[i] : i \in DOMAIN f}

\* ', '.join(names)
RECURSIVE JoinComma(_)
JoinComma(names) ==
    IF names = <<>> THEN ""
    ELSE IF Len(names) = 1 THEN names[1]
    ELSE names[1] \o ", " \o JoinComma(Tail(names))

\* a handler returns: the response goes back to _handle_connection
Return(c, resp, own) ==
    conn' = [conn EXCEPT ![c].pc = "send", ![c].response = resp, ![c].own = own]

\* a variant in which the failure of one handler ends every handler
LeaveAll(c, why) ==
    conn' = [d \in Conns |->
                IF conn[d].pc \in {"none", "closed"} THEN conn[d]
                ELSE [conn[d] EXCEPT !.pc = "finally", !.cause = why]]

\* the handler leaves its loop for its finally clause
Leave(c, why) ==
    conn' = [conn EXCEPT ![c].pc = "finally", ![c].cause = why]

\* a variant without the try of line 139: the exception goes up to
\* _handle_connection, whose except clause (line 121) ends the handler
raise_Exception(c, e) ==
    Leave(c, "exception")

\* lines 172-174: an exception raised under _process_command's try becomes
\* an ERROR response
except_Exception(c, e) ==
    Return(c, "ERROR " \o e, 0)

\* the modem's set_mode(mode): the modem named mode becomes the current one
set_mode(mode) == modem_name' = mode

\* a variant of _cmd_mode whose query answers from self.options.mode
_cmd_mode_from_options(c, arg) ==
    LET mode == Str(Upper(arg))
    IN  IF arg = <<>>
        THEN /\ Return(c, "OK MODE " \o options.mode, modeOwner)
             /\ UNCHANGED devVars
        ELSE IF mode \notin Range(valid_modes)
        THEN /\ Return(c, "ERROR Invalid mode. Valid: " \o JoinComma(valid_modes), 0)
             /\ UNCHANGED devVars
        ELSE IF ~modem_ok
        THEN /\ except_Exception(c, ModemFault)
             /\ UNCHANGED devVars
        ELSE /\ set_mode(mode)
             /\ modeOwner' = c
             /\ conn' = [conn EXCEPT ![c].pc = "exec2"]
             /\ UNCHANGED <<modem_ok, options, output_db, volOwner, txVars>>

\* a variant of _cmd_mode that calls set_mode before it checks the argument
_cmd_mode_set_first(c, arg) ==
    LET mode == Str(Upper(arg))
    IN  IF arg = <<>>
        THEN /\ Return(c, "OK MODE " \o modem_name, modeOwner)
             /\ UNCHANGED devVars
        ELSE IF ~modem_ok
        THEN /\ except_Exception(c, ModemFault)
             /\ UNCHANGED devVars
        ELSE IF mode \notin Range(valid_modes)
        THEN /\ set_mode(mode)
             /\ modeOwner' = c
             /\ Return(c, "ERROR Invalid mode. Valid: " \o JoinComma(valid_modes), 0)
             /\ UNCHANGED <<modem_ok, options, output_db, volOwner, txVars>>
        ELSE /\ set_mode(mode)
             /\ modeOwner' = c
             /\ conn' = [conn EXCEPT ![c].pc = "exec2"]
             /\ UNCHANGED <<modem_ok, options, output_db, volOwner, txVars>>

\* a variant of _cmd_mode without the check of lines 183-184
_cmd_mode_any(c, arg) ==
    LET mode == Str(Upper(arg))
    IN  IF arg = <<>>
        THEN /\ Return(c, "OK MODE " \o modem_name, modeOwner)
             /\ UNCHANGED devVars
        ELSE /\ set_mode(mode)
             /\ modeOwner' = c
             /\ conn' = [conn EXCEPT ![c].pc = "exec2"]
             /\ UNCHANGED <<modem_ok, options, output_db, volOwner, txVars>>

\* _cmd_mode, lines 178-186: the query, the check of the argument, and
\* self.modem_tx.set_mode(mode), which raises when the modem is broken
_cmd_mode(c, arg) ==
    LET mode == Str(Upper(arg))
    IN  IF arg = <<>>
        THEN /\ Return(c, "OK MODE " \o modem_name, modeOwner)
             /\ UNCHANGED devVars
        ELSE IF mode \notin Range(valid_modes)
        THEN /\ Return(c, "ERROR Invalid mode. Valid: " \o JoinComma(valid_modes), 0)
             /\ UNCHANGED devVars
        ELSE IF ~modem_ok
        THEN /\ except_Exception(c, ModemFault)
             /\ UNCHANGED devVars
        ELSE /\ set_mode(mode)
             /\ modeOwner' = c
             /\ conn' = [conn EXCEPT ![c].pc = "exec2"]
             /\ UNCHANGED <<modem_ok, options, output_db, volOwner, txVars>>

\* _cmd_mode, lines 187-189: self.options.mode = mode, and the response
_cmd_mode_2(c, arg) ==
    LET mode == Str(Upper(arg))
    IN  /\ options' = [options EXCEPT !.mode = mode]
        /\ Return(c, "OK MODE " \o mode, 0)
        /\ UNCHANGED <<modem_name, modem_ok, output_db, modeOwner, volOwner, txVars>>

\* a variant of _cmd_volume that mutes the device when float(arg) raises
_cmd_volume_mute(c, arg) ==
    LET volume == ParseFloat(arg)
    IN  IF arg = <<>>
        THEN /\ Return(c, "OK VOLUME " \o FloatStr(options.output_volume), volOwner)
             /\ UNCHANGED devVars
        ELSE IF volume = ValueError
        THEN /\ output_db' = FloatFin(FALSE, 0, 0)
             /\ Return(c, "ERROR Invalid volume (must be number in dB)", 0)
             /\ UNCHANGED <<modem_name, modem_ok, options, modeOwner, volOwner, txVars>>
        ELSE /\ output_db' = volume
             /\ conn' = [conn EXCEPT ![c].pc = "exec2"]
             /\ UNCHANGED <<modem_name, modem_ok, options, modeOwner, volOwner, txVars>>

\* _cmd_volume, lines 193-199 and 203-204: the query, float(arg) and
\* self.output_device.db = volume
_cmd_volume(c, arg) ==
    LET volume == ParseFloat(arg)
    IN  IF arg = <<>>
        THEN /\ Return(c, "OK VOLUME " \o FloatStr(options.output_volume), volOwner)
             /\ UNCHANGED devVars
        ELSE IF volume = ValueError
        THEN /\ Return(c, "ERROR Invalid volume (must be number in dB)", 0)
             /\ UNCHANGED devVars
        ELSE /\ output_db' = volume
             /\ conn' = [conn EXCEPT ![c].pc = "exec2"]
             /\ UNCHANGED <<modem_name, modem_ok, options, modeOwner, volOwner, txVars>>

\* _cmd_volume, lines 200-202: self.options.output_volume = volume, and the response
_cmd_volume_2(c, arg) ==
    LET volume == ParseFloat(arg)
    IN  /\ options' = [options EXCEPT !.output_volume = volume]
        /\ volOwner' = c
        /\ Return(c, "OK VOLUME " \o FloatStr(volume), 0)
        /\ UNCHANGED <<modem_name, modem_ok, output_db, modeOwner, txVars>>

\* a variant of _cmd_follow that takes every argument but ON for OFF
_cmd_follow_else_off(c, arg) ==
    LET a == Str(Upper(arg))
    IN  IF arg = <<>>
        THEN /\ Return(c, "OK FOLLOW " \o (IF options.follow THEN "ON" ELSE "OFF"), 0)
             /\ UNCHANGED devVars
        ELSE IF a = "ON"
        THEN /\ options' = [options EXCEPT !.follow = TRUE]
             /\ Return(c, "OK FOLLOW ON", 0)
             /\ UNCHANGED <<modem_name, modem_ok, output_db, modeOwner, volOwner, txVars>>
        ELSE /\ options' = [options EXCEPT !.follow = FALSE]
             /\ Return(c, IF a = "OFF" THEN "OK FOLLOW OFF"
                          ELSE "ERROR Invalid follow state. Use: ON or OFF", 0)
             /\ UNCHANGED <<modem_name, modem_ok, output_db, modeOwner, volOwner, txVars>>

\* _cmd_follow, lines 206-223
_cmd_follow(c, arg) ==
    LET a == Str(Upper(arg))
    IN  IF arg = <<>>
        THEN /\ Return(c, "OK FOLLOW " \o (IF options.follow THEN "ON" ELSE "OFF"), 0)
             /\ UNCHANGED devVars
        ELSE IF a = "ON"
        THEN /\ options' = [options EXCEPT !.follow = TRUE]
             /\ Return(c, "OK FOLLOW ON", 0)
             /\ UNCHANGED <<modem_name, modem_ok, output_db, modeOwner, volOwner, txVars>>
        ELSE IF a = "OFF"
        THEN /\ options' = [options EXCEPT !.follow = FALSE]
             /\ Return(c, "OK FOLLOW OFF", 0)
             /\ UNCHANGED <<modem_name, modem_ok, output_db, modeOwner, volOwner, txVars>>
        ELSE /\ Return(c, "ERROR Invalid follow state. Use: ON or OFF", 0)
             /\ UNCHANGED devVars

\* _cmd_status, line 227: mode = self.modem_tx.modem.modem_name, the first
\* of the unlocked reads of the shared state
_cmd_status(c) ==
    /\ conn' = [conn EXCEPT ![c].pc = "exec2", ![c].at = 228,
                            ![c].text = <<<<"mode", modem_name>>>>]
    /\ UNCHANGED devVars

\* _cmd_status, lines 228-233: volume (228) and follow (229) are read one
\* after the other, each as it is at that moment; ptt and inhibit are what
\* the output device shows when lines 230-231 read them, and line 233
\* formats the five locals (Local(n) is the value read under the name n)
_cmd_status_2(c) ==
    LET Local(n) == conn[c].text[CHOOSE i \in DOMAIN conn[c].text :
                                     conn[c].text[i][1] = n][2] IN
    /\ \/ /\ conn[c].at = 228
          /\ conn' = [conn EXCEPT ![c].at = 229,
                        ![c].text = Append(@, <<"volume", FloatStr(options.output_volume)>>)]
       \/ /\ conn[c].at = 229
          /\ conn' = [conn EXCEPT ![c].at = 230,
                        ![c].text = Append(@, <<"follow", IF options.follow THEN "ON" ELSE "OFF">>)]
       \/ /\ conn[c].at = 230
          /\ \E ptt, inhibit \in BOOLEAN :
               conn' = [conn EXCEPT
                          ![c].pc = "send",
                          ![c].response = "OK STATUS MODE=" \o Local("mode")
                              \o " VOLUME=" \o Local("volume")
                              \o " FOLLOW=" \o Local("follow")
                              \o " PTT=" \o (IF ptt THEN "ON" ELSE "OFF")
                              \o " CHANNEL=" \o (IF inhibit THEN "BUSY" ELSE "CLEAR"),
                          ![c].own = 0, ![c].at = 0, ![c].text = <<>>]
    /\ UNCHANGED devVars

\* _cmd_levels, lines 235-241: the level is read and formatted, or the read raises
_cmd_levels(c) ==
    /\ \/ \E rx_level \in InputLevels :
              Return(c, "OK LEVELS RX=" \o Format1(rx_level), 0)
       \/ Return(c, "ERROR Could not read levels: " \o InputFault, 0)
    /\ UNCHANGED devVars

\* _cmd_ptt_test, lines 243-259: the tone goes to the output device, or the
\* import of pydub or the write raises
_cmd_ptt_test(c) ==
    \/ /\ tx_buffer' = Append(tx_buffer, "sine")
       /\ Return(c, "OK PTT TEST started", 0)
       /\ UNCHANGED <<modem_name, modem_ok, options, output_db, send_queue,
                      config_file, send_queue_lock, nframes, modeOwner, volOwner>>
    \/ /\ \E e \in PttFaults : Return(c, "ERROR PTT test failed: " \o e, 0)
       /\ UNCHANGED devVars

\* _cmd_clear, lines 263-264 and 269-270: self.output_device.clear(), which may raise
_cmd_clear(c) ==
    \/ /\ tx_buffer' = <<>>
       /\ conn' = [conn EXCEPT ![c].pc = "exec2", ![c].at = 265]
       /\ UNCHANGED <<modem_name, modem_ok, options, output_db, send_queue,
                      config_file, send_queue_lock, nframes, modeOwner, volOwner>>
    \/ /\ Return(c, "ERROR Clear failed: " \o OutputFault, 0)
       /\ UNCHANGED devVars

\* a variant of lines 265-268 that takes the lock and gives it back without
\* emptying the queue
_cmd_clear_keep(c) ==
    \/ /\ conn[c].at = 265
       /\ send_queue_lock = Free
       /\ send_queue_lock' = Handler(c)
       /\ conn' = [conn EXCEPT ![c].at = 266]
       /\ UNCHANGED <<modem_name, modem_ok, options, output_db, tx_buffer,
                      send_queue, config_file, nframes, modeOwner, volOwner>>
    \/ /\ conn[c].at = 266
       /\ send_queue_lock' = Free
       /\ conn' = [conn EXCEPT ![c].at = 268, ![c].mark = nframes]
       /\ UNCHANGED <<modem_name, modem_ok, options, output_db, tx_buffer,
                      send_queue, config_file, nframes, modeOwner, volOwner>>
    \/ /\ conn[c].at = 268
       /\ conn' = [conn EXCEPT ![c].pc = "send", ![c].response = "OK CLEAR",
                                ![c].own = 0, ![c].at = 0]
       /\ UNCHANGED devVars

\* _cmd_clear, lines 265-268: the handler takes the queue's lock when it is
\* free (line 265), empties the queue and gives the lock back (line 266 and
\* the end of the with block), and returns OK CLEAR (line 268)
_cmd_clear_2(c) ==
    \/ /\ conn[c].at = 265
       /\ send_queue_lock = Free
       /\ send_queue_lock' = Handler(c)
       /\ conn' = [conn EXCEPT ![c].at = 266]
       /\ UNCHANGED <<modem_name, modem_ok, options, output_db, tx_buffer,
                      send_queue, config_file, nframes, modeOwner, volOwner>>
    \/ /\ conn[c].at = 266
       /\ send_queue' = <<>>
       /\ send_queue_lock' = Free
       /\ conn' = [conn EXCEPT ![c].at = 268, ![c].mark = nframes]
       /\ UNCHANGED <<modem_name, modem_ok, options, output_db, tx_buffer,
                      config_file, nframes, modeOwner, volOwner>>
    \/ /\ conn[c].at = 268
       /\ conn' = [conn EXCEPT ![c].pc = "send", ![c].response = "OK CLEAR",
                                ![c].own = 0, ![c].at = 0]
       /\ UNCHANGED devVars

\* key.replace("_", "-") of the option keys
DashName ==
    [c |-> "c", mode |-> "mode", output_volume |-> "output-volume", follow |-> "follow"]

\* str(value) if value is not None else "", of the option with key k
StrOf(opts, k) ==
    CASE k = "output_volume" -> FloatStr(opts.output_volume)
      [] k = "follow" -> IF opts.follow THEN "True" ELSE "False"
      [] OTHER -> IF opts[k] = "None" THEN "" ELSE opts[k]

\* _cmd_save, lines 274-279: the imports and open(path, "w"), which
\* truncates the file; an import or open() that raises leaves the file as
\* it was
_cmd_save(c) ==
    \/ /\ config_file' = ""
       /\ conn' = [conn EXCEPT ![c].pc = "exec2", ![c].at = 280]
       /\ UNCHANGED <<modem_name, modem_ok, options, output_db, tx_buffer,
                      send_queue, send_queue_lock, nframes, modeOwner, volOwner>>
    \/ /\ \E e \in {ImportFault, OpenFault} : Return(c, "ERROR Save failed: " \o e, 0)
       /\ UNCHANGED devVars

\* _cmd_save, lines 280-290: the comprehension of lines 281-285 goes through
\* vars(self.options) and reads one value at each step, as it is at that
\* moment (the order of the keys is the order in which the application set
\* them); the text made of them (Text, one key = value line for each, in
\* the order read) is handed to f.write, and at the end of the with block
\* it is written to the file and OK SAVE is returned, or the write raises
\* and leaves the file as it is.  The write goes to the start of the file,
\* where the handler's file object stands since its open(): what another
\* handler has written there since is overwritten as far as the text goes,
\* and the rest of it stays.  Unread is the set of keys whose value has not
\* been read yet
_cmd_save_2(c) ==
    LET read == conn[c].text
        Unread == {k \in DOMAIN options \ {"c"} :
                      \A i \in DOMAIN read : read[i][1] # DashName[k]}
        RECURSIVE Text(_)
        Text(n) == IF n = 0 THEN ""
                   ELSE Text(n - 1) \o read[n][1] \o " = " \o read[n][2] \o "\n"
        text == Text(Len(read))
    IN
    \/ /\ conn[c].at = 280
       /\ \E k \in Unread :
            conn' = [conn EXCEPT
                       ![c].at = IF Unread = {k} THEN 286 ELSE 280,
                       ![c].text = Append(@, <<DashName[k], StrOf(options, k)>>)]
       /\ UNCHANGED devVars
    \/ /\ conn[c].at = 286
       /\ config_file' = IF Len(config_file) > Len(text)
                         THEN text \o SubSeq(config_file, Len(text) + 1, Len(config_file))
                         ELSE text
       /\ conn' = [conn EXCEPT ![c].pc = "send",
                                ![c].response = "OK SAVE " \o ConfigPath,
                                ![c].own = 0, ![c].at = 0, ![c].text = <<>>]
       /\ UNCHANGED <<modem_name, modem_ok, options, output_db, tx_buffer,
                      send_queue, send_queue_lock, nframes, modeOwner, volOwner>>
    \/ /\ conn[c].at = 286
       /\ conn' = [conn EXCEPT ![c].pc = "send",
                                ![c].response = "ERROR Save failed: " \o WriteFault,
                                ![c].own = 0, ![c].at = 0, ![c].text = <<>>]
       /\ UNCHANGED devVars

\* line 132: command.upper().split(None, 1)
Parts(command) == SplitWords(Upper(command))

\* line 136: cmd = parts[0]
Cmd(parts) == Str(parts[1])

\* line 137: arg = parts[1] if len(parts) > 1 else ""
Arg(parts) == IF Len(parts) > 1 THEN parts[2] ELSE <<>>

\* _process_command, lines 130-174, up to the first write to the shared state
_process_command(c, command) ==
    LET parts == Parts(command)
        cmd == Cmd(parts)
        arg == Arg(parts)
    IN  IF parts = <<>>
        THEN Return(c, "ERROR Empty command", 0) /\ UNCHANGED devVars
        ELSE IF cmd = "PING"
        THEN Return(c, "OK PONG", 0) /\ UNCHANGED devVars
        ELSE IF cmd = "MODE" THEN _cmd_mode(c, arg)
        ELSE IF cmd = "VOLUME" THEN _cmd_volume(c, arg)
        ELSE IF cmd = "FOLLOW" THEN _cmd_follow(c, arg)
        ELSE IF cmd = "STATUS" THEN _cmd_status(c)
        ELSE IF cmd = "LEVELS" THEN _cmd_levels(c)
        ELSE IF cmd = "PTT"
        THEN IF Str(arg) = "TEST"
             THEN _cmd_ptt_test(c)
             ELSE /\ Return(c, "ERROR Unknown PTT command. Use: PTT TEST", 0)
                  /\ UNCHANGED devVars
        ELSE IF cmd = "CLEAR" THEN _cmd_clear(c)
        ELSE IF cmd = "SAVE" THEN _cmd_save(c)
        ELSE /\ Return(c, "ERROR Unknown command: " \o cmd, 0)
             /\ UNCHANGED devVars

\* the rest of a handler that writes the shared state in two steps
_process_command_2(c, command) ==
    LET parts == Parts(command)
        cmd == Cmd(parts)
    IN  IF cmd = "MODE" THEN _cmd_mode_2(c, Arg(parts))
        ELSE IF cmd = "VOLUME" THEN _cmd_volume_2(c, Arg(parts))
        ELSE IF cmd = "STATUS" THEN _cmd_status_2(c)
        ELSE IF cmd = "CLEAR" THEN _cmd_clear_2(c)
        ELSE _cmd_save_2(c)

(***************************************************************************)
(* The connection handler: _handle_connection                              *)
(***************************************************************************)

\* line 107: while self.running
HandlerLoopCond == running

\* line 107: the loop condition, checked before every recv
Check(c) ==
    /\ conn[c].pc = "check"
    /\ IF HandlerLoopCond
       THEN conn' = [conn EXCEPT ![c].pc = "recv"]
       ELSE Leave(c, "stopped")
    /\ UNCHANGED <<nconn, nlines>>
    /\ UNCHANGED lifeVars
    /\ UNCHANGED devVars

\* lines 108 and 112: data = conn.recv(1024) returns the first k bytes in
\* flight, and their decoded text is appended to the buffer
Read(c, k) ==
    LET data == SubSeq(conn[c].wire, 1, k)
        text == Decode(data)
    IN  conn' = [conn EXCEPT ![c].pc = "scan",
                             ![c].wire = SubSeq(@, k + 1, Len(@)),
                             ![c].buffer = @ \o text,
                             ![c].rx = @ \o text,
                             ![c].rxb = @ \o data]

\* the most bytes a recv returns when n are in flight
Most(n) == IF n < RecvSize THEN n ELSE RecvSize

\* lines 108-112: recv returns all that is in flight (up to 1024 bytes); with
\* nothing in flight, an empty read (the client has closed) ends the loop and
\* a reset connection raises
Recv(c) ==
    /\ conn[c].pc = "recv"
    /\ \/ /\ conn[c].wire # <<>>
          /\ Read(c, Most(Len(conn[c].wire)))
       \/ /\ conn[c].wire = <<>>
          /\ conn[c].peer = "closed"
          /\ Leave(c, "eof")
       \/ /\ conn[c].wire = <<>>
          /\ conn[c].peer = "reset"
          /\ Leave(c, "ioerror")
    /\ UNCHANGED <<nconn, nlines>>
    /\ UNCHANGED lifeVars
    /\ UNCHANGED devVars

\* lines 108-112: recv returns only a part of what is in flight
RecvPart(c) ==
    /\ conn[c].pc = "recv"
    /\ \E k \in 1..(Most(Len(conn[c].wire)) - 1) : Read(c, k)
    /\ UNCHANGED <<nconn, nlines>>
    /\ UNCHANGED lifeVars
    /\ UNCHANGED devVars

\* a variant of line 116 that splits at the last newline of the buffer
NextLineLast(buffer) ==
    LET i == CHOOSE j \in 1..Len(buffer) :
                 /\ buffer[j] = NL
                 /\ \A k \in (j + 1)..Len(buffer) : buffer[k] # NL
    IN  [line |-> SubSeq(buffer, 1, i - 1),
         rest |-> SubSeq(buffer, i + 1, Len(buffer))]

\* line 116: line, buffer = buffer.split('\n', 1)
NextLine(buffer) == SplitLine(buffer)

\* a variant of line 118 that dispatches every line
DispatchedAlways(line) == TRUE

\* line 118: if line
Dispatched(line) == line # <<>>

\* lines 115-118: the next complete line is cut off the buffer and stripped;
\* a line that is not empty goes to _process_command, and without a complete
\* line the handler goes back to the loop condition
Scan(c) ==
    /\ conn[c].pc = "scan"
    /\ IF HasLine(conn[c].buffer)
       THEN LET cut == NextLine(conn[c].buffer)
                line == Strip(cut.line)
            IN  IF Dispatched(line)
                THEN conn' = [conn EXCEPT ![c].pc = "exec",
                                          ![c].buffer = cut.rest,
                                          ![c].line = line,
                                          ![c].ndisp = @ + 1]
                ELSE conn' = [conn EXCEPT ![c].buffer = cut.rest,
                                          ![c].line = line]
       ELSE conn' = [conn EXCEPT ![c].pc = "check"]
    /\ UNCHANGED <<nconn, nlines>>
    /\ UNCHANGED lifeVars
    /\ UNCHANGED devVars

\* line 119: response = self._process_command(line)
Exec(c) ==
    /\ \/ /\ conn[c].pc = "exec"
          /\ _process_command(c, conn[c].line)
       \/ /\ conn[c].pc = "exec2"
          /\ _process_command_2(c, conn[c].line)
    /\ UNCHANGED <<nconn, nlines>>
    /\ UNCHANGED lifeVars

\* a variant of line 120 that writes the response to every open connection
SendAll(c) ==
    /\ conn[c].pc = "send"
    /\ conn' = [d \in Conns |->
                  IF d = c
                  THEN [conn[c] EXCEPT
                          !.pc = "scan",
                          !.log = Append(@, [line |-> conn[c].line,
                                             resp |-> conn[c].response,
                                             own |-> conn[c].own,
                                             late |-> afterStop])]
                  ELSE IF conn[d].pc \in {"none", "finally", "closed"}
                  THEN conn[d]
                  ELSE [conn[d] EXCEPT
                          !.log = Append(@, [line |-> conn[c].line,
                                             resp |-> conn[c].response,
                                             own |-> conn[c].own,
                                             late |-> afterStop])]]
    /\ UNCHANGED <<nconn, nlines>>
    /\ UNCHANGED lifeVars
    /\ UNCHANGED devVars

\* line 120: conn.send(response + "\n").  A send to a client that has shut
\* down its sending side succeeds: a client that only half-closed keeps
\* reading, and the system of a client that closed for good answers the
\* bytes with a reset (rst) that arrives after the send has returned.  Only
\* a send on a connection whose reset has arrived raises
Send(c) ==
    /\ conn[c].pc = "send"
    /\ \/ /\ conn[c].peer # "reset"
          /\ ~conn[c].rst
          /\ \E r \in BOOLEAN :
               conn' = [conn EXCEPT
                          ![c].pc = "scan",
                          ![c].rst = (conn[c].peer = "closed" /\ r),
                          ![c].log = Append(@, [line |-> conn[c].line,
                                                resp |-> conn[c].response,
                                                own |-> conn[c].own,
                                                late |-> afterStop])]
       \/ /\ conn[c].peer = "reset" \/ conn[c].rst
          /\ Leave(c, "ioerror")
    /\ UNCHANGED <<nconn, nlines>>
    /\ UNCHANGED lifeVars
    /\ UNCHANGED devVars

\* lines 123-128: finally, conn.close()
Close(c) ==
    /\ conn[c].pc = "finally"
    /\ conn' = [conn EXCEPT ![c].pc = "closed"]
    /\ UNCHANGED <<nconn, nlines>>
    /\ UNCHANGED lifeVars
    /\ UNCHANGED devVars

(***************************************************************************)
(* The specifications                                                      *)
(***************************************************************************)

\* the server is started once and serves its connections
Serve ==
    \/ \E k \in Callers : StartOnce(k)
    \/ \E k \in Callers : StartSet(k)
    \/ \E k \in Callers : StartThread(k)
    \/ \E k \in Callers : StartSpawn(k)
    \/ \E k \in Callers : StartLaunch(k)
    \/ \E t \in Threads : LoopSocket(t)
    \/ \E t \in Threads : LoopSetsockopt(t)
    \/ \E t \in Threads : LoopBind(t)
    \/ \E t \in Threads : LoopListen(t)
    \/ \E t \in Threads : LoopSettimeout(t)
    \/ \E t \in Threads : LoopCheck(t)
    \/ \E t \in Threads : LoopCall(t)
    \/ \E t \in Threads : LoopAccept(t, MaxConns)
    \/ \E c \in Conns : Check(c)
    \/ \E c \in Conns : Recv(c)
    \/ \E c \in Conns : Scan(c)
    \/ \E c \in Conns : Exec(c)
    \/ \E c \in Conns : Send(c)

\* clients that send any bytes in any chunks, close and reset
NextFrame ==
    \/ Serve
    \/ \E c \in Conns : \E l \in LinesFrame : ClientSend(c, l, MaxLines)
    \/ \E c \in Conns : RecvPart(c)
    \/ \E c \in Conns : ClientClose(c)
    \/ \E c \in Conns : ClientReset(c)
    \/ \E c \in Conns : Close(c)

\* clients that keep their connections open and send MODE commands
NextMode ==
    \/ Serve
    \/ \E c \in Conns : \E l \in LinesMode : ClientSend(c, l, CmdLines)

\* clients that keep their connections open and send VOLUME commands
NextVolume ==
    \/ Serve
    \/ \E c \in Conns : \E l \in LinesVolume : ClientSend(c, l, CmdLines)

\* clients that keep their connections open and send FOLLOW commands
NextFollow ==
    \/ Serve
    \/ \E c \in Conns : \E l \in LinesFollow : ClientSend(c, l, CmdLines)

\* a client that sends commands that fail, and every other verb, and closes,
\* and a modem that breaks
NextErrors ==
    \/ \E k \in Callers : StartOnce(k)
    \/ \E k \in Callers : StartSet(k)
    \/ \E k \in Callers : StartThread(k)
    \/ \E k \in Callers : StartSpawn(k)
    \/ \E k \in Callers : StartLaunch(k)
    \/ \E t \in Threads : LoopSocket(t)
    \/ \E t \in Threads : LoopSetsockopt(t)
    \/ \E t \in Threads : LoopBind(t)
    \/ \E t \in Threads : LoopListen(t)
    \/ \E t \in Threads : LoopSettimeout(t)
    \/ \E t \in Threads : LoopCheck(t)
    \/ \E t \in Threads : LoopCall(t)
    \/ \E t \in Threads : LoopAccept(t, ErrConns)
    \/ \E c \in Conns : Check(c)
    \/ \E c \in Conns : Recv(c)
    \/ \E c \in Conns : Scan(c)
    \/ \E c \in Conns : Exec(c)
    \/ \E c \in Conns : Send(c)
    \/ \E c \in Conns : \E l \in LinesErrors : ClientSend(c, l, MaxLines)
    \/ \E c \in Conns : ClientClose(c)
    \/ \E c \in Conns : Close(c)
    \/ ModemBreak

\* clients that send CLEAR while the transmit path queues frames and the
\* audio path takes them
NextClear ==
    \/ Serve
    \/ \E c \in Conns : \E l \in LinesClear : ClientSend(c, l, MaxLines)
    \/ ProducerLock
    \/ ProducerAppend
    \/ ReaderLock
    \/ ReaderTake

\* clients that keep their connections open and set modes and volumes
NextOptions ==
    \/ Serve
    \/ \E c \in Conns : \E l \in LinesOptions : ClientSend(c, l, MaxLines)

\* clients that send VOLUME with the number words float() accepts
NextFinite ==
    \/ Serve
    \/ \E c \in Conns : \E l \in LinesFinite : ClientSend(c, l, MaxLines)

\* the lifecycle: start() and stop() in any order, failures of bind and accept
Next ==
    \/ \E k \in Callers : StartCall(k)
    \/ \E k \in Callers : StartSet(k)
    \/ \E k \in Callers : StartThread(k)
    \/ \E k \in Callers : StartSpawn(k)
    \/ \E k \in Callers : StartLaunch(k)
    \/ \E k \in Callers : StopCall(k)
    \/ \E k \in Callers : StopClose(k)
    \/ \E t \in Threads : LoopSocket(t)
    \/ \E t \in Threads : LoopSetsockopt(t)
    \/ \E t \in Threads : LoopBind(t)
    \/ \E t \in Threads : LoopListen(t)
    \/ \E t \in Threads : LoopSettimeout(t)
    \/ \E t \in Threads : LoopBindFail(t)
    \/ \E t \in Threads : LoopCheck(t)
    \/ \E t \in Threads : LoopCall(t)
    \/ \E t \in Threads : LoopAccept(t, LifeConns)
    \/ \E t \in Threads : LoopAcceptFail(t)
    \/ \E t \in Threads : LoopFinally(t)
    \/ \E c \in Conns : \E l \in LinesLife : ClientSend(c, l, LifeLines)
    \/ \E c \in Conns : ClientClose(c)
    \/ \E c \in Conns : ClientReset(c)
    \/ \E c \in Conns : Expire(c)
    \/ \E c \in Conns : Check(c)
    \/ \E c \in Conns : Recv(c)
    \/ \E c \in Conns : Scan(c)
    \/ \E c \in Conns : Exec(c)
    \/ \E c \in Conns : Send(c)
    \/ \E c \in Conns : Close(c)

Spec == Init /\ [][Next]_vars

SpecFrame == Init /\ [][NextFrame]_vars

SpecMode == Init /\ [][NextMode]_vars

SpecVolume == Init /\ [][NextVolume]_vars

SpecFollow == Init /\ [][NextFollow]_vars

SpecErrors == Init /\ [][NextErrors]_vars

SpecClear == Init /\ [][NextClear]_vars

SpecOptions == Init /\ [][NextOptions]_vars

SpecFinite == Init /\ [][NextFinite]_vars

(***************************************************************************)
(* What a client may expect, stated on the text a connection has received  *)
(***************************************************************************)

\* the newline-terminated lines of a text, in order; cur is the line being read
RECURSIVE CompleteLines(_, _)
CompleteLines(text, cur) ==
    IF text = <<>> THEN <<>>
    ELSE IF Head(text) = NL
         THEN <<cur>> \o CompleteLines(Tail(text), <<>>)
         ELSE CompleteLines(Tail(text), Append(cur, Head(text)))

\* a line with a character that is not whitespace
NonBlank(l) == \E i \in 1..Len(l) : l[i] \notin Whitespace

\* a non-blank line from its first to its last character that is not whitespace
Trim(l) ==
    LET ink == {i \in 1..Len(l) : l[i] \notin Whitespace}
        a == CHOOSE i \in ink : \A j \in ink : i <= j
        b == CHOOSE i \in ink : \A j \in ink : i >= j
    IN  SubSeq(l, a, b)

RECURSIVE TrimAll(_)
TrimAll(ls) == IF ls = <<>> THEN <<>> ELSE <<Trim(Head(ls))>> \o TrimAll(Tail(ls))

\* the commands of a received text: its complete non-blank lines, trimmed
Commands(text) == TrimAll(SelectSeq(CompleteLines(text, <<>>), NonBlank))

\* the response to a command whose answer does not depend on the state
AnswerOf(line) ==
    IF Str(Upper(line)) = "PING" THEN "OK PONG"
    ELSE "ERROR Unknown command: " \o Str(Upper(line))

\* the handler of c has nothing left to do with what it has read so far
Quiet(c) == conn[c].pc \in {"check", "recv", "finally", "closed"}

\* the connection of c was reset: by the client, or by the client's system in
\* answer to a send after the client had closed
WasReset(c) == conn[c].peer = "reset" \/ conn[c].rst

(***************************************************************************)
(* Framing and ordering (SpecFrame)                                        *)
(***************************************************************************)

\* C1: on every connection the lines answered so far are, in order, the first
\* commands of the text received, each with its own response; a line is
\* dispatched only when every earlier dispatched line has its response
\* written, so at most one command of a connection is in execution, and it is
\* the next command of the text received.  This holds for every chunking of
\* the input and every interleaving with the other connection.  A handler
\* ends with an I/O error only on a connection that was reset; on any other,
\* a client that has closed included, every dispatched command is answered.
C1_InOrder ==
    \A c \in Conns :
        LET cmds == Commands(conn[c].rx)
            log == conn[c].log
        IN  /\ Len(log) <= Len(cmds)
            /\ \A i \in 1..Len(log) :
                   /\ log[i].line = cmds[i]
                   /\ log[i].resp = AnswerOf(cmds[i])
            /\ conn[c].ndisp \in {Len(log), Len(log) + 1}
            /\ conn[c].pc \in {"exec", "exec2", "send"} =>
                   /\ conn[c].ndisp = Len(log) + 1
                   /\ conn[c].ndisp <= Len(cmds)
                   /\ conn[c].line = cmds[conn[c].ndisp]
            /\ Quiet(c) /\ conn[c].cause # "ioerror" => conn[c].ndisp = Len(log)
            /\ conn[c].cause = "ioerror" => WasReset(c)
            /\ Quiet(c) /\ ~WasReset(c) => Len(log) = Len(cmds)

\* two different commands of one connection have both been answered, the
\* second after the client had closed (the reset that answers a send to a
\* closed client has arrived), and the handler has ended on end of input
C1_Witness ==
    \E c \in Conns :
        /\ Len(conn[c].log) = 2
        /\ conn[c].log[1].line # conn[c].log[2].line
        /\ conn[c].log[1].resp # conn[c].log[2].resp
        /\ conn[c].peer = "closed"
        /\ conn[c].rst
        /\ conn[c].cause = "eof"

\* the number of newlines in a text
Newlines(text) == Len(SelectSeq(text, LAMBDA ch : ch = NL))

\* C2 as stated: on a connection read without I/O error, once the handler
\* has worked off what it has read, the responses written are as many as the
\* newline-terminated lines received, whatever the lines hold.
C2_OnePerLine ==
    \A c \in Conns :
        Quiet(c) /\ conn[c].cause # "ioerror" =>
            Len(conn[c].log) = Newlines(conn[c].rx)

\* C2, amended: on a connection read without I/O error, once the handler has
\* worked off what it has read, the responses written are as many as the
\* newline-terminated lines received that are not blank: a line that is
\* empty after trimming is dropped without a response (line 118), and every
\* other line has exactly one.  An I/O error happens only on a connection
\* that was reset; a connection whose client has closed is read without one.
C2_OnePerCommand ==
    \A c \in Conns :
        /\ Quiet(c) /\ conn[c].cause # "ioerror" =>
               /\ Len(conn[c].log) = Len(Commands(conn[c].rx))
               /\ Len(conn[c].log) = conn[c].ndisp
               /\ Len(conn[c].log) <= Newlines(conn[c].rx)
        /\ conn[c].cause = "ioerror" => WasReset(c)

\* a connection has received a blank line and a command and answered one,
\* and its handler has ended on end of input after the client closed
C2_Witness ==
    \E c \in Conns :
        /\ Quiet(c)
        /\ conn[c].cause = "eof"
        /\ conn[c].peer = "closed"
        /\ Newlines(conn[c].rx) = 2
        /\ Len(conn[c].log) = 1

(***************************************************************************)
(* MODE (SpecMode)                                                         *)
(***************************************************************************)

\* connection c takes the step that executes the line it has dispatched
Executes(c) == conn[c].pc = "exec" /\ conn'[c].pc # "exec"

\* the mode a MODE line of the clients names, "" for the query and for BOGUS
ModeOf(line) ==
    IF line = LineModeDatac1 THEN "DATAC1"
    ELSE IF line = LineModeDatac3 THEN "DATAC3"
    ELSE IF line = LineModeDatac4 THEN "DATAC4"
    ELSE ""

\* entries i+1..j-1 of a log name no mode
NoModeBetween(log, i, j) == \A k \in (i + 1)..(j - 1) : ModeOf(log[k].line) = ""

\* C3: a MODE m with m any of the valid modes is answered OK MODE m, and a
\* MODE query that follows it on the same connection, with no MODE m' of
\* this connection between the two and with the modem's mode last set by
\* this connection (no other client has changed it since), is answered
\* OK MODE m as well.
C3_SetThenQuery ==
    \A c \in Conns :
        LET log == conn[c].log
        IN  \A i \in 1..Len(log) :
                ModeOf(log[i].line) # "" =>
                    /\ log[i].resp = "OK MODE " \o ModeOf(log[i].line)
                    /\ \A j \in (i + 1)..Len(log) :
                           /\ log[j].line = LineModeQuery
                           /\ log[j].own = c
                           /\ NoModeBetween(log, i, j)
                           => log[j].resp = "OK MODE " \o ModeOf(log[i].line)

\* one client has set a mode and queried it while another client set modes
C3_Witness ==
    \E c, d \in Conns :
        /\ c # d
        /\ Len(conn[c].log) = 2
        /\ conn[c].log[1].line = LineModeDatac4
        /\ conn[c].log[2].line = LineModeQuery
        /\ conn[c].log[2].own = c
        /\ Len(conn[d].log) = 1
        /\ conn[d].log[1].line = LineModeDatac3

\* the mode that the entries 1..i of a log leave, from the mode m before them
RECURSIVE ModeAfter(_, _, _)
ModeAfter(log, i, m) ==
    IF i = 0 THEN m
    ELSE IF ModeOf(log[i].line) # "" THEN ModeOf(log[i].line)
    ELSE ModeAfter(log, i - 1, m)

\* C4: a MODE with an argument that is no valid mode is answered with the
\* ERROR that lists the valid modes, and the step that executes it changes
\* neither the modem's mode nor the options; a MODE query that follows it on
\* the connection, the mode not having been set by another client, is
\* answered with the mode that was active before.
C4_InvalidMode ==
    /\ [][\A c \in Conns :
             Executes(c) /\ conn[c].line = LineModeBogus =>
                 /\ conn'[c].pc = "send"
                 /\ conn'[c].response = "ERROR Invalid mode. Valid: DATAC1, DATAC3, DATAC4"
                 /\ modem_name' = modem_name
                 /\ options' = options]_vars
    /\ [](\A c \in Conns :
             LET log == conn[c].log
             IN  \A i \in 1..Len(log) :
                     log[i].line = LineModeBogus =>
                         /\ log[i].resp = "ERROR Invalid mode. Valid: DATAC1, DATAC3, DATAC4"
                         /\ /\ i < Len(log)
                            /\ log[i + 1].line = LineModeQuery
                            /\ log[i + 1].own \in {0, c}
                            /\ log[i + 1].own = 0 => \A k \in 1..i : ModeOf(log[k].line) = ""
                            => log[i + 1].resp = "OK MODE " \o ModeAfter(log, i, "DATAC1"))

\* a client has set DATAC3, sent MODE BOGUS and then queried the mode
C4_Witness ==
    \E c \in Conns :
        /\ Len(conn[c].log) = 3
        /\ conn[c].log[1].line = LineModeDatac3
        /\ conn[c].log[2].line = LineModeBogus
        /\ conn[c].log[3].line = LineModeQuery
        /\ conn[c].log[3].resp = "OK MODE DATAC3"
        /\ modem_name = "DATAC3"
        /\ options.mode = "DATAC3"

(***************************************************************************)
(* VOLUME (SpecVolume)                                                     *)
(***************************************************************************)

\* the volume a VOLUME line of the clients sets, as Python prints the float;
\* "" for the query and for ABC
VolumeOf(line) ==
    IF line = LineVolumeNeg THEN "-6.5"
    ELSE IF line = LineVolumeExp THEN "10.0"
    ELSE ""

\* entries i+1..j-1 of a log set no volume
NoVolumeBetween(log, i, j) == \A k \in (i + 1)..(j - 1) : VolumeOf(log[k].line) = ""

\* C5: a VOLUME with an argument that is no number is answered ERROR Invalid
\* volume (must be number in dB), and the step that executes it changes
\* neither the device's gain nor the options; a VOLUME v with a number v is
\* answered OK VOLUME v, and so is a VOLUME query that follows it on the
\* connection with no VOLUME v' between them and the options' volume last
\* written by this connection.
C5_Volume ==
    /\ [][\A c \in Conns :
             Executes(c) /\ conn[c].line = LineVolumeAbc =>
                 /\ conn'[c].pc = "send"
                 /\ conn'[c].response = "ERROR Invalid volume (must be number in dB)"
                 /\ output_db' = output_db
                 /\ options' = options]_vars
    /\ [](\A c \in Conns :
             LET log == conn[c].log
             IN  \A i \in 1..Len(log) :
                     /\ log[i].line = LineVolumeAbc =>
                            log[i].resp = "ERROR Invalid volume (must be number in dB)"
                     /\ VolumeOf(log[i].line) # "" =>
                            /\ log[i].resp = "OK VOLUME " \o VolumeOf(log[i].line)
                            /\ \A j \in (i + 1)..Len(log) :
                                   /\ log[j].line = LineVolumeQuery
                                   /\ log[j].own = c
                                   /\ NoVolumeBetween(log, i, j)
                                   => log[j].resp = "OK VOLUME " \o VolumeOf(log[i].line))

\* a client has set -6.5, sent VOLUME ABC and then queried the volume
C5_Witness ==
    \E c \in Conns :
        /\ Len(conn[c].log) = 3
        /\ conn[c].log[1].line = LineVolumeNeg
        /\ conn[c].log[2].line = LineVolumeAbc
        /\ conn[c].log[3].line = LineVolumeQuery
        /\ conn[c].log[3].resp = "OK VOLUME -6.5"
        /\ output_db = FloatFin(TRUE, 65, -1)
        /\ options.output_volume = FloatFin(TRUE, 65, -1)

(***************************************************************************)
(* FOLLOW (SpecFollow)                                                     *)
(***************************************************************************)

\* no other connection than c has had a line dispatched
Alone(c) == \A d \in Conns \ {c} : conn[d].ndisp = 0

\* the flag that the entries 1..i of a log of FOLLOW lines leave, from flag f
RECURSIVE FollowAfter(_, _, _)
FollowAfter(log, i, f) ==
    IF i = 0 THEN f
    ELSE IF log[i].line = LineFollowOn THEN "ON"
    ELSE IF log[i].line = LineFollowOff THEN "OFF"
    ELSE FollowAfter(log, i - 1, f)

\* C6: the step that executes FOLLOW ON (FOLLOW OFF, in any case of the
\* letters) sets the flag (clears it) and answers OK FOLLOW ON (OFF); the
\* query answers with the flag as it is and FOLLOW with another argument
\* answers ERROR, both leaving the options unchanged; no other step changes
\* the flag.  So the flag is that of the last FOLLOW ON or OFF, and on a
\* connection that is the only one to send commands every query answers with
\* the last ON or OFF before it.
C6_Follow ==
    /\ [][\A c \in Conns :
             Executes(c) =>
                 /\ conn'[c].pc = "send"
                 /\ conn[c].line = LineFollowOn =>
                        /\ options' = [options EXCEPT !.follow = TRUE]
                        /\ conn'[c].response = "OK FOLLOW ON"
                 /\ conn[c].line = LineFollowOff =>
                        /\ options' = [options EXCEPT !.follow = FALSE]
                        /\ conn'[c].response = "OK FOLLOW OFF"
                 /\ conn[c].line = LineFollowQuery =>
                        /\ options' = options
                        /\ conn'[c].response =
                               "OK FOLLOW " \o (IF options.follow THEN "ON" ELSE "OFF")
                 /\ conn[c].line = LineFollowMaybe =>
                        /\ options' = options
                        /\ conn'[c].response = "ERROR Invalid follow state. Use: ON or OFF"]_vars
    /\ [][options' # options =>
             \E c \in Conns : Executes(c) /\ conn[c].line \in {LineFollowOn, LineFollowOff}]_vars
    /\ [](\A c \in Conns :
             LET log == conn[c].log
             IN  Alone(c) =>
                     \A i \in 1..Len(log) :
                         /\ log[i].line = LineFollowQuery =>
                                log[i].resp = "OK FOLLOW " \o FollowAfter(log, i - 1, "OFF")
                         /\ log[i].line = LineFollowMaybe =>
                                log[i].resp = "ERROR Invalid follow state. Use: ON or OFF")

\* a client has sent FOLLOW ON, FOLLOW MAYBE and the query, and the flag is set
C6_Witness ==
    \E c \in Conns :
        /\ Len(conn[c].log) = 3
        /\ conn[c].log[1].line = LineFollowOn
        /\ conn[c].log[2].line = LineFollowMaybe
        /\ conn[c].log[3].line = LineFollowQuery
        /\ conn[c].log[3].resp = "OK FOLLOW ON"
        /\ options.follow

(***************************************************************************)
(* Errors (SpecErrors)                                                     *)
(***************************************************************************)

\* the handler of c has left its loop
Gone(c) == conn[c].pc \in {"finally", "closed"}

\* C7: no command ends the connection loop.  An unknown verb is answered
\* ERROR Unknown command: and the verb in upper case, a wrong argument with
\* an ERROR line, and an exception raised while a command executes (the
\* modem's set_mode failing) with ERROR and its text; the handler leaves its
\* loop only on end of input or on an I/O error of a socket the client has
\* closed, and on a connection without I/O error every command received has
\* its answer once the handler has worked off what it read.  The other
\* verbs (STATUS, LEVELS, PTT TEST, CLEAR, SAVE) are answered with their OK
\* line, or with the ERROR line of their handler when a collaborator raises.
C7_NoCommandEndsLoop ==
    \A c \in Conns :
        LET log == conn[c].log
        IN  /\ conn[c].cause \in {"", "eof", "ioerror"}
            /\ Gone(c) => conn[c].cause # "" /\ conn[c].peer # "open"
            /\ \A i \in 1..Len(log) :
                   /\ log[i].line = LineUnknown =>
                          log[i].resp = "ERROR Unknown command: FOO"
                   /\ log[i].line = LinePttX =>
                          log[i].resp = "ERROR Unknown PTT command. Use: PTT TEST"
                   /\ log[i].line = LineVolumeAbc =>
                          log[i].resp = "ERROR Invalid volume (must be number in dB)"
                   /\ log[i].line = LineModeDatac3 =>
                          log[i].resp \in {"OK MODE DATAC3", "ERROR set_mode failed"}
                   /\ log[i].line = LinePing => log[i].resp = "OK PONG"
                   /\ log[i].line = LineStatus =>
                          \E m \in {"DATAC1", "DATAC3"} :
                              \E p \in {"ON", "OFF"} :
                                  \E ch \in {"BUSY", "CLEAR"} :
                                      log[i].resp = "OK STATUS MODE=" \o m
                                          \o " VOLUME=0.0 FOLLOW=OFF PTT=" \o p
                                          \o " CHANNEL=" \o ch
                   /\ log[i].line = LineLevels =>
                          log[i].resp \in
                              {"OK LEVELS RX=-12.5", "OK LEVELS RX=0.0",
                               "ERROR Could not read levels: input device failed"}
                   /\ log[i].line = LinePttTest =>
                          log[i].resp \in
                              {"OK PTT TEST started",
                               "ERROR PTT test failed: No module named 'pydub'",
                               "ERROR PTT test failed: output device failed"}
                   /\ log[i].line = LineClear =>
                          log[i].resp \in
                              {"OK CLEAR", "ERROR Clear failed: output device failed"}
                   /\ log[i].line = LineSave =>
                          log[i].resp \in
                              {"OK SAVE /root/.freedvtnc2.conf",
                               "ERROR Save failed: No module named 'configargparse'",
                               "ERROR Save failed: [Errno 13] Permission denied: '/root/.freedvtnc2.conf'",
                               "ERROR Save failed: [Errno 28] No space left on device"}
            /\ Quiet(c) /\ conn[c].cause # "ioerror" =>
                   Len(log) = Len(Commands(conn[c].rx))
            /\ conn[c].cause = "ioerror" => WasReset(c)

\* a connection is open after a command that raised, and the next line, with
\* an unknown verb, has been answered on it as well
C7_Witness ==
    \E c \in Conns :
        /\ Len(conn[c].log) = 2
        /\ conn[c].log[1].line = LineModeDatac3
        /\ conn[c].log[1].resp = "ERROR set_mode failed"
        /\ conn[c].log[2].line = LineUnknown
        /\ conn[c].peer = "open"
        /\ ~Gone(c)

(***************************************************************************)
(* Lifecycle (Spec)                                                        *)
(***************************************************************************)

\* caller k takes the first step of a call of start()
CallsStart(k) ==
    /\ caller[k] = "idle"
    /\ ncalls' = ncalls + 1
    /\ caller'[k] # "stop_close"
    /\ \A j \in Callers \ {k} : caller'[j] = caller[j]

\* C8: a call of start() that finds the server running returns at once and
\* changes nothing: the running flag, the accept-loop threads, the sockets
\* and the listening socket of the server, and the connections are as they
\* were.
C8_StartIdempotent ==
    [][\A k \in Callers :
          CallsStart(k) /\ running =>
              /\ caller'[k] = "idle"
              /\ running' = running
              /\ thr' = thr
              /\ socks' = socks
              /\ server_socket' = server_socket
              /\ conn' = conn]_vars

\* start() was called on a running server, which still has its one accept
\* loop listening on its one socket
C8_Witness ==
    /\ last = "again"
    /\ running
    /\ Len(thr) = 1
    /\ Len(socks) = 1
    /\ socks[server_socket].st = "listening"
    /\ ~socks[server_socket].closed

\* C9 as stated: no connection is accepted and handed to a handler after a
\* stop() has returned, start() not having been called again.
C9_NoAcceptAfterStop ==
    \A c \in Conns : conn[c].pc # "none" => ~conn[c].late

\* C10: the handler of a connection accepted while the server was running
\* is not ended by stop(): it leaves its loop only when the peer has closed
\* the socket or a read or write on it has failed.
C10_OnlyPeerEnds ==
    \A c \in Conns :
        conn[c].up /\ Gone(c) => conn[c].cause \in {"eof", "ioerror"}

\* a connection accepted while the server was running has answered a command
\* after stop() had returned, and its handler has then left its loop at the
\* check of the flag although the client had neither closed nor reset
C10_Witness ==
    \E c \in Conns :
        /\ conn[c].up
        /\ ~conn[c].late
        /\ conn[c].cause = "stopped"
        /\ conn[c].peer = "open"
        /\ Len(conn[c].log) >= 1
        /\ conn[c].log[Len(conn[c].log)].late

(***************************************************************************)
(* Isolation of the connections (SpecFrame)                                *)
(***************************************************************************)

\* the handler of c leaves its loop in this step
Fails(c) == conn[c].pc \notin {"finally", "closed"} /\ conn'[c].pc = "finally"

\* C11: the failure of a connection (its client has closed or reset it) ends
\* the handler of that connection only.  The step in which a handler leaves
\* its loop changes no other connection, no accept-loop thread, no listening
\* socket and not the running flag; a handler is gone only when its own
\* client has gone, so a connection whose client is there keeps its handler;
\* and the accept loop, once it listens, stays in its loop on the listening
\* socket whatever happens to the connections.
C11_FailureIsLocal ==
    /\ [][\A c \in Conns :
             Fails(c) =>
                 /\ \A d \in Conns \ {c} : conn'[d] = conn[d]
                 /\ UNCHANGED <<running, server_socket, socks, thr>>]_vars
    /\ [](\A c \in Conns :
             /\ Gone(c) => conn[c].cause \in {"eof", "ioerror"} /\ conn[c].peer # "open"
             /\ conn[c].cause = "ioerror" => WasReset(c))
    /\ [](\A t \in Threads :
             thr[t].pc \in {"loop", "call", "accept"} =>
                 /\ running
                 /\ socks[server_socket].st = "listening"
                 /\ ~socks[server_socket].closed
                 /\ thr[t].pc = "accept" => thr[t].sock = server_socket)

\* the first connection was reset by its client, has failed with an I/O
\* error and is closed; the second was accepted after that, and a command
\* of it is being answered
C11_Witness ==
    /\ conn[1].pc = "closed"
    /\ conn[1].cause = "ioerror"
    /\ conn[1].peer = "reset"
    /\ conn[2].gone = {1}
    /\ conn[2].pc = "send"
    /\ conn[2].response = "OK PONG"

\* the responses a connection has been sent, in order
Responses(log) == [i \in 1..Len(log) |-> log[i].resp]

\* the answers to the first n commands of a text, in order
Answers(text, n) == [i \in 1..n |-> AnswerOf(Commands(text)[i])]

\* C12: a response is written only to the connection whose command it
\* answers.  With two connections open at once, the responses a connection
\* has been sent are, in order, the answers to the first commands of the
\* text that this connection has received; and a step that writes to a
\* connection is the send of that connection's own handler, writes the
\* response of the command it has just executed, and writes to no other
\* connection.
C12_OwnResponses ==
    /\ [](\A c \in Conns :
             /\ Len(conn[c].log) <= Len(Commands(conn[c].rx))
             /\ Responses(conn[c].log) = Answers(conn[c].rx, Len(conn[c].log)))
    /\ [][\A c \in Conns :
             conn'[c].log # conn[c].log =>
                 /\ conn[c].pc = "send"
                 /\ Len(conn'[c].log) = Len(conn[c].log) + 1
                 /\ SubSeq(conn'[c].log, 1, Len(conn[c].log)) = conn[c].log
                 /\ conn'[c].log[Len(conn'[c].log)].resp = conn[c].response
                 /\ conn'[c].log[Len(conn'[c].log)].line = conn[c].line
                 /\ \A d \in Conns \ {c} : conn'[d].log = conn[d].log]_vars

\* two connections are open at once, each has sent one command, and each
\* has been sent the one answer to its own: OK PONG on the first, the
\* error of the unknown verb on the second
C12_Witness ==
    /\ conn[1].peer = "open" /\ ~Gone(1)
    /\ conn[2].peer = "open" /\ ~Gone(2)
    /\ Responses(conn[1].log) = <<"OK PONG">>
    /\ Responses(conn[2].log) = <<"ERROR Unknown command: FOO">>

(***************************************************************************)
(* CLEAR and the transmit queue (SpecClear)                                *)
(***************************************************************************)

\* the handler of c has made the collaborator's internal clear (line 264)
\* and has not yet emptied the queue (line 266)
BetweenClears(c) == conn[c].pc = "exec2" /\ conn[c].at \in {265, 266}

\* the queue is written only by a thread that holds its lock
WrittenUnderLock ==
    [][send_queue' # send_queue =>
           /\ send_queue_lock # Free
           /\ send_queue_lock' = Free
           /\ send_queue_lock.by = "handler" =>
                  /\ conn[send_queue_lock.c].at = 266
                  /\ send_queue' = <<>>]_vars

\* C13 as stated: the queue is written only under its lock, and while a
\* reader holds the lock no CLEAR is between its internal clear and the
\* emptying of a queue that still holds frames.
C13_ClearAtomic ==
    /\ WrittenUnderLock
    /\ [](send_queue_lock = Reader =>
              \A c \in Conns : ~(BetweenClears(c) /\ send_queue # <<>>))

\* the handler of c returns OK CLEAR in this step
ReportsCleared(c) ==
    /\ conn[c].pc = "exec2"
    /\ conn'[c].pc = "send"
    /\ conn'[c].response = "OK CLEAR"

\* C14 as stated: when OK CLEAR is returned the queue is empty.
C14_EmptyWhenReported ==
    [][\A c \in Conns : ReportsCleared(c) => send_queue = <<>>]_vars

\* C14, amended: the handler empties the queue while it holds the lock, so
\* the queue is empty when the lock is given back; when OK CLEAR is returned
\* no frame that was queued before that moment is in the queue, and the
\* frames in it are those the transmit path has queued since.
C14_ClearedWhenReported ==
    /\ [][\A c \in Conns :
             conn[c].at = 266 /\ conn'[c].at = 268 =>
                 /\ send_queue_lock = Handler(c)
                 /\ send_queue' = <<>>
                 /\ send_queue_lock' = Free]_vars
    /\ [][\A c \in Conns :
             ReportsCleared(c) =>
                 /\ \A i \in 1..Len(send_queue) : send_queue[i] > conn[c].mark
                 /\ Len(send_queue) <= nframes - conn[c].mark]_vars

\* a CLEAR has emptied a queue that held a frame, a frame was queued after
\* that, and OK CLEAR is about to be returned
C14_Witness ==
    \E c \in Conns :
        /\ conn[c].pc = "exec2"
        /\ conn[c].at = 268
        /\ conn[c].mark = 1
        /\ send_queue = <<2>>

(***************************************************************************)
(* The options and the devices (SpecOptions)                               *)
(***************************************************************************)

\* no handler is inside _process_command
NoCommandInProgress == \A c \in Conns : conn[c].pc \notin {"exec", "exec2"}

\* C15 as stated: whenever no command is in progress, the mode of the
\* options is the modem's mode and the output volume of the options is the
\* output device's gain, whatever MODE and VOLUME commands the connections
\* have sent and however their handlers have interleaved.
C15_Lockstep ==
    NoCommandInProgress =>
        /\ options.mode = modem_name
        /\ options.output_volume = output_db

(***************************************************************************)
(* The mode is a valid mode (SpecMode)                                     *)
(***************************************************************************)

\* C16: in every reachable state the modem's mode and the mode of the
\* options are members of valid_modes, whatever MODE commands, valid or
\* not, the connections have sent.
C16_ModeValid ==
    /\ modem_name \in Range(valid_modes)
    /\ options.mode \in Range(valid_modes)

\* an invalid mode has been refused, and a later command of the same
\* connection has set a mode other than the initial one
C16_Witness ==
    \E c \in Conns :
        /\ Len(conn[c].log) = 2
        /\ conn[c].log[1].line = LineModeBogus
        /\ conn[c].log[2].line = LineModeDatac4
        /\ modem_name = "DATAC4"
        /\ options.mode = "DATAC4"

(***************************************************************************)
(* The volume is a finite number (SpecFinite)                              *)
(***************************************************************************)

\* C17 as stated: whatever argument a client sends with VOLUME, NAN, INF and
\* INFINITY in any case among them, the gain of the output device and the
\* output volume of the options are finite numbers.
C17_VolumeFinite ==
    /\ output_db.k = "fin"
    /\ options.output_volume.k = "fin"

(***************************************************************************)
(* The accept-loop threads (Spec)                                          *)
(***************************************************************************)

\* the accept-loop threads that are in the loop of lines 77-91
Accepting == {t \in Threads : thr[t].pc \in {"loop", "call", "accept"}}

\* C18 as stated: whatever start() and stop() calls were made and however
\* they interleave with the threads, at most one accept-loop thread is in
\* its accept loop.
C18_OneAcceptLoop == Cardinality(Accepting) <= 1

\* no call of start() is under way and no accept-loop thread is still
\* before its loop
StartupFinished ==
    /\ \A k \in Callers : caller[k] = "idle"
    /\ \A t \in Threads :
           thr[t].pc \notin {"socket", "setsockopt", "bind", "listen", "settimeout"}

\* C19 as stated: whenever the running flag is set and startup has
\* finished, some accept-loop thread is in its loop and the server's socket
\* is bound and listening; a failed bind does not leave the flag set.
C19_RunningMeansListening ==
    running /\ StartupFinished =>
        /\ Accepting # {}
        /\ server_socket # 0
        /\ socks[server_socket].st = "listening"
        /\ ~socks[server_socket].closed

(***************************************************************************)
(* Framing and the reads (SpecFrame)                                       *)
(***************************************************************************)

\* what follows the last newline of a text
RECURSIVE Partial(_)
Partial(text) ==
    IF IndexOf(text, NL) = 0 THEN text
    ELSE Partial(SubSeq(text, IndexOf(text, NL) + 1, Len(text)))

\* C20 as stated: the commands dispatched on a connection depend only on
\* the concatenation of the bytes read, however the reads have cut it: the
\* lines dispatched so far are, in order, the first commands of the decoded
\* concatenation, each dispatched once; and what follows the last newline
\* is not dispatched but is in the buffer when the handler goes to read on.
C20_FramingByBytes ==
    \A c \in Conns :
        LET text == Decode(conn[c].rxb)
            cmds == Commands(text)
            log == conn[c].log
        IN  /\ conn[c].ndisp <= Len(cmds)
            /\ Len(log) <= conn[c].ndisp
            /\ \A i \in 1..Len(log) : log[i].line = cmds[i]
            /\ conn[c].pc \in {"exec", "exec2", "send"} =>
                   conn[c].line = cmds[conn[c].ndisp]
            /\ conn[c].pc \in {"check", "recv"} =>
                   /\ conn[c].buffer = Partial(text)
                   /\ conn[c].ndisp = Len(cmds)

====
